---- MODULE Spec2Model ----
(***************************************************************************)
(* Model of the AI-Researcher workflow engine: the AsyncTask record kept   *)
(* by the Celery worker (backend/tasks/base.py), the stage task bodies     *)
(* (backend/tasks/literature.py, analysis.py, generation.py), the start    *)
(* and cancel endpoints (backend/api/workflows.py, backend/api/tasks.py)   *)
(* and the provider retry loop (llm/openai_llm.py and its siblings).       *)
(* Modelled on their own: the two draft generators                         *)
(* (modules/paper_drafting.py, modules/paper_draft_generator.py) and the   *)
(* multi-source search and fusion (modules/multi_source_search.py).        *)
(*                                                                         *)
(* One project and one task in flight at a time are modelled.  The record  *)
(* of a finished task is dropped when the next task is submitted.          *)
(* The project row always exists; database errors and the timestamps      *)
(* started_at and completed_at are not modelled.                           *)
(***************************************************************************)
EXTENDS Integers, Sequences, FiniteSets, TLC

\* ------------------------------------------------------------------ bounds
MaxRuns == 5          \* tasks submitted in one behaviour
MaxFound == 2         \* papers one discovery run can save
MaxIdeas == 2         \* ideas one provider answer can carry
MaxRetriesArg == 3    \* largest max_retries a chat call is configured with
MaxStored == 21       \* papers stored when the analysis stage runs alone
MaxCost == 2          \* largest max_cost_per_request, in cost units
MaxPapers == 3        \* records in a mapping given to merge_and_deduplicate
MaxReturned == 1      \* papers one source adapter returns
MaxKeywords == 3      \* keywords of a research intent
MaxScored == 2        \* papers in a list given to relevance scoring
MaxTitleLen == 3      \* characters of a title given to normalize_title
MaxRanked == 2        \* ideas in a list given to rank_ideas
MaxRegistered == 3    \* register_llm calls made one after the other
MaxThreads == 2       \* threads that call register_llm, or record_llm_call,
                      \* at the same time
MaxRecorded == 2      \* record_llm_call invocations
MaxChats == 2         \* LLMManager.chat calls made one after the other
MaxSteps == 3         \* largest total_steps of a ProgressTracker

\* ------------------------------------------------------- program constants
max_papers == 20      \* paper_analysis_task(max_papers=20)
num_ideas == 5        \* idea_generation_task(num_ideas=5)

Stages == {"discovery", "analysis", "landscape", "ideas", "method", "draft"}

\* TaskStatus enum values
TaskStatus == {"pending", "running", "completed", "failed", "cancelled"}

None == "None"

VARIABLES
    proj,     \* the project's persisted rows and current_step
    rec,      \* the AsyncTask row of the task in flight
    ep,       \* position of the start endpoint that submitted the task
    wk,       \* the worker executing the task body: position and locals
    cn,       \* the cancel endpoint: position, status it read, its answer
    runs,     \* number of tasks submitted so far
    chat,     \* one provider chat call: the retry loop of BaseLLM.chat
    dg,       \* one draft generation: sections built so far, its outcome
    ms,       \* one multi-source search and one merge_and_deduplicate call
    rl,       \* one relevance scoring of a list of papers
    nt,       \* one title and its normalization, applied once and twice
    rk,       \* one rank_ideas call: its input and the list it returns
    rg,       \* the LLMManager: its instances, its default and the calls on it
    met,      \* the MetricsCollector: its lock, its llm_calls and the threads in it
    mg,       \* one LLMManager.chat call
    rt,       \* the environment, the LLMs registered from it and one routing call
    ri,       \* one construction of a ResearchIntent
    pg,       \* a task row and the ProgressTracker of its task, on their own
    wf,       \* the ResearchWorkflow of the command line: its state and its last call
    sm        \* one MetricsCollector.get_summary call

\* the variables of the functions modelled on their own
aux == <<dg, ms, rl, nt, rk, rg, met, mg, rt, ri, pg, wf, sm>>

vars == <<proj, rec, ep, wk, cn, runs, chat, aux>>

\* the variables of the workflow engine and of the chat call
engine == <<proj, rec, ep, wk, cn, runs, chat>>

\* ------------------------------------------------------------ the task row
\* AsyncTask before the endpoint has committed it
NoRec ==
    [exists |-> FALSE, status |-> None, progress |-> 0, message |-> FALSE,
     summary |-> <<>>, error |-> ""]

\* AsyncTask(status=PENDING, progress=0) as every start endpoint creates it
NewRec ==
    [exists |-> TRUE, status |-> "pending", progress |-> 0, message |-> FALSE,
     summary |-> <<>>, error |-> ""]

Min(a, b) == IF a < b THEN a ELSE b
Max(a, b) == IF a > b THEN a ELSE b

\* the progress update_task_status would store without its bounds
clamp_progress_none(progress) == progress

\* min(100, max(0, progress))
clamp_progress(progress) == Min(100, Max(0, progress))

\* DatabaseTask.update_task_status.  status is a TaskStatus value or None,
\* progress is {} (None) or {p}, message is whether a non-empty message is
\* passed, result is the result dict (<<>> when None or empty), error is
\* the error text ("" when None).  A task id with no row is a no-op.
update_task_status(r, status, progress, message, result, error) ==
    IF ~r.exists THEN r
    ELSE [r EXCEPT
            !.status = IF status # None THEN status ELSE @,
            !.progress = IF progress # {}
                         THEN clamp_progress(CHOOSE p \in progress : TRUE)
                         ELSE @,
            !.message = IF message THEN TRUE ELSE @,
            !.summary = IF result # <<>> THEN result ELSE @,
            !.error = IF error # "" THEN error ELSE @]

\* the arguments DatabaseTask.on_failure passes to update_task_status
on_failure_update(r, exc) ==
    update_task_status(r, "failed", {0}, FALSE, <<>>, exc)

\* a success callback that leaves the progress argument out
on_success_keep_progress(r, retval) ==
    update_task_status(r, "completed", {}, FALSE, retval, "")

\* the arguments DatabaseTask.on_success passes to update_task_status
on_success_update(r, retval) ==
    update_task_status(r, "completed", {100}, FALSE, retval, "")

\* int((step / total_steps) * 100) of ProgressTracker; the float product
\* truncates to the integer quotient for every total_steps below 40
Pct(step, total) == (step * 100) \div total

\* ProgressTracker.set_progress(progress, message)
set_progress(r, p) == update_task_status(r, None, {p}, TRUE, <<>>, "")

\* ------------------------------------------------------------- the project
NewProject ==
    [papers |-> 0, analyses |-> 0, landscape |-> 0, ideas |-> 0,
     methods |-> 0, drafts |-> 0, current_step |-> "intent"]

\* the worker when no task is dispatched
IdleWorker ==
    [pc |-> "idle", stage |-> None, via |-> None, n |-> 0, i |-> 0,
     analyzed |-> 0, failed |-> 0, k |-> 0, bad |-> 0, step |-> 0,
     idea |-> 0,
     absent |-> FALSE, llm |-> 0, answer |-> None, exc |-> "",
     retval |-> <<>>,
     proj0 |-> NewProject]

IdleCancel == [pc |-> "idle", seen |-> None, outcome |-> None]

IdleChat ==
    [pc |-> "idle", max_retries |-> 0, max_cost_per_request |-> 0,
     estimated_cost |-> 0, plan |-> <<>>, attempt |-> 0,
     calls |-> 0, waits |-> <<>>, result |-> <<>>]

\* --------------------------------------------------- prerequisite checks
\* the checks with the one on the papers left out
MissingNoPaperCheck(stage, p, idea) ==
    CASE stage = "landscape" -> p.analyses = 0
      [] stage = "ideas" -> p.landscape = 0
      [] stage = "method" -> ~(idea >= 1 /\ idea <= p.ideas)
      [] stage = "draft" -> ~(idea >= 1 /\ idea <= p.ideas) \/ p.methods = 0
      [] OTHER -> FALSE

\* the checks with the one on the landscape left out
MissingNoLandscapeCheck(stage, p, idea) ==
    CASE stage = "analysis" -> p.papers = 0
      [] stage = "landscape" -> p.analyses = 0
      [] stage = "method" -> ~(idea >= 1 /\ idea <= p.ideas)
      [] stage = "draft" -> ~(idea >= 1 /\ idea <= p.ideas) \/ p.methods = 0
      [] OTHER -> FALSE

\* the "if not ...: raise ValueError" check each task body makes on the
\* rows it loaded: analysis.py:61, analysis.py:167, generation.py:54,
\* generation.py:160, generation.py:259 and 268
Missing(stage, p, idea) ==
    CASE stage = "analysis" -> p.papers = 0
      [] stage = "landscape" -> p.analyses = 0
      [] stage = "ideas" -> p.landscape = 0
      [] stage = "method" -> ~(idea >= 1 /\ idea <= p.ideas)
      [] stage = "draft" -> ~(idea >= 1 /\ idea <= p.ideas) \/ p.methods = 0
      [] OTHER -> FALSE

\* the rows the stage needs are really absent (what the queries return)
Absent(stage, p, idea) ==
    CASE stage = "analysis" -> p.papers = 0
      [] stage = "landscape" -> p.analyses = 0
      [] stage = "ideas" -> p.landscape = 0
      [] stage = "method" -> ~(idea >= 1 /\ idea <= p.ideas)
      [] stage = "draft" -> ~(idea >= 1 /\ idea <= p.ideas) \/ p.methods = 0
      [] OTHER -> FALSE

\* the check each start endpoint makes before it dispatches the task
EndpointAccepts(stage, p, idea) ==
    CASE stage = "discovery" -> TRUE
      [] stage = "analysis" -> p.papers # 0
      [] stage = "landscape" -> p.analyses # 0
      [] stage = "ideas" -> p.landscape # 0
      [] stage = "method" -> idea >= 1 /\ idea <= p.ideas
      [] stage = "draft" -> p.methods # 0
      [] OTHER -> FALSE

\* first program point of each task body
EntryPc(stage) ==
    CASE stage = "discovery" -> "d42"
      [] stage = "analysis" -> "a44"
      [] stage = "landscape" -> "l158"
      [] stage = "ideas" -> "i45"
      [] stage = "method" -> "m150"
      [] stage = "draft" -> "p249"

Quiescent ==
    /\ wk.pc \in {"idle", "done"}
    /\ ep \in {"idle", "created"}
    /\ cn.pc = "idle"

Dispatch(stage, idea, via) ==
    /\ wk' = [IdleWorker EXCEPT !.pc = EntryPc(stage), !.stage = stage,
                                !.via = via, !.idea = idea, !.proj0 = proj]
    /\ rec' = NoRec
    /\ cn' = IdleCancel
    /\ runs' = runs + 1

\* ---------------------------------------------------------- the endpoints
\* start_literature_discovery .. start_paper_draft up to task.delay(...):
\* the prerequisite check, then the dispatch; the row is not yet created
start_stage ==
    /\ Quiescent
    /\ runs < MaxRuns
    /\ \E stage \in Stages, idea \in 0..1 :
          /\ stage \notin {"method", "draft"} => idea = 0
          /\ EndpointAccepts(stage, proj, idea)
          /\ Dispatch(stage, idea, "endpoint")
    /\ ep' = "dispatched"
    /\ UNCHANGED <<proj, chat, aux>>

\* the rest of the start endpoint: db.add(AsyncTask(PENDING, 0)); commit
create_task_record ==
    /\ ep = "dispatched"
    /\ rec' = NewRec
    /\ ep' = "created"
    /\ UNCHANGED <<proj, wk, cn, runs, chat, aux>>

\* a task sent to the broker by name, with no endpoint and no AsyncTask row
send_task ==
    /\ Quiescent
    /\ runs < MaxRuns
    /\ \E stage \in Stages, idea \in 0..1 :
          /\ stage \notin {"method", "draft"} => idea = 0
          /\ Dispatch(stage, idea, "direct")
    /\ ep' = "idle"
    /\ UNCHANGED <<proj, chat, aux>>

\* statuses for which cancel_task answers 400
CancelRejectsOnlyCompleted == {"completed"}

CancelRejectsCancelledToo == {"completed", "failed", "cancelled"}

CancelRejects == {"completed", "failed"}

\* cancel_task up to its status check: the query and the two early returns
cancel_task_check ==
    /\ cn.pc = "idle"
    /\ ep = "created"
    /\ IF ~rec.exists
       THEN cn' = [pc |-> "idle", seen |-> None, outcome |-> "not_found"]
       ELSE IF rec.status \in CancelRejects
       THEN cn' = [pc |-> "idle", seen |-> rec.status, outcome |-> "rejected"]
       ELSE cn' = [pc |-> "commit", seen |-> rec.status, outcome |-> None]
    /\ UNCHANGED <<proj, rec, ep, wk, runs, chat, aux>>

\* cancel_task after the check: task.status = CANCELLED; db.commit()
cancel_task_commit ==
    /\ cn.pc = "commit"
    /\ rec' = [rec EXCEPT !.status = "cancelled"]
    /\ cn' = [cn EXCEPT !.pc = "idle", !.outcome = "cancelled"]
    /\ UNCHANGED <<proj, ep, wk, runs, chat, aux>>

\* ------------------------------------------------------- worker plumbing
Goto(pc) == wk' = [wk EXCEPT !.pc = pc]

Raise(e) == wk' = [wk EXCEPT !.pc = "raised", !.exc = e]

\* ProgressTracker.update(message): next step of total
TrackerUpdate(total, pc) ==
    /\ rec' = set_progress(rec, Pct(wk.step + 1, total))
    /\ wk' = [wk EXCEPT !.step = @ + 1, !.pc = pc]

\* Celery calls on_success with the value the task body returned
on_success ==
    /\ wk.pc = "returned"
    /\ rec' = on_success_update(rec, wk.retval)
    /\ Goto("done")
    /\ UNCHANGED <<proj, ep, cn, runs, chat, aux>>

\* Celery calls on_failure with the exception the task body raised
on_failure ==
    /\ wk.pc = "raised"
    /\ rec' = on_failure_update(rec, wk.exc)
    /\ Goto("done")
    /\ UNCHANGED <<proj, ep, cn, runs, chat, aux>>

\* ------------------------------------------------------ the stage bodies
\* literature_discovery_task: the project row always exists in this model
literature_discovery_task ==
    /\ wk.stage = "discovery"
    /\ \/ /\ wk.pc = "d42"
          /\ rec' = set_progress(rec, 5) /\ Goto("d52") /\ UNCHANGED proj
       \/ /\ wk.pc = "d52"
          /\ rec' = set_progress(rec, 10) /\ Goto("d53") /\ UNCHANGED proj
       \/ /\ wk.pc = "d53"
          /\ rec' = update_task_status(rec, "running", {}, FALSE, <<>>, "")
          /\ Goto("d59") /\ UNCHANGED proj
       \/ /\ wk.pc = "d59"
          /\ rec' = set_progress(rec, 15) /\ Goto("d71") /\ UNCHANGED proj
       \/ /\ wk.pc = "d71"
          /\ rec' = set_progress(rec, 20) /\ Goto("d80") /\ UNCHANGED proj
       \/ /\ wk.pc = "d80"
          /\ rec' = set_progress(rec, 60) /\ Goto("d86") /\ UNCHANGED proj
       \/ /\ wk.pc = "d86"
          /\ rec' = set_progress(rec, 75) /\ Goto("d91") /\ UNCHANGED proj
       \/ /\ wk.pc = "d91"
          /\ rec' = set_progress(rec, 85) /\ Goto("d110") /\ UNCHANGED proj
       \/ /\ wk.pc = "d110"      \* db.add per paper, then one commit
          /\ \E found \in 0..MaxFound :
                /\ proj' = [proj EXCEPT !.papers = @ + found]
                /\ wk' = [wk EXCEPT !.pc = "d113", !.k = found]
          /\ UNCHANGED rec
       \/ /\ wk.pc = "d113"
          /\ proj' = [proj EXCEPT !.current_step = "discovery"]
          /\ Goto("d117") /\ UNCHANGED rec
       \/ /\ wk.pc = "d117"
          /\ rec' = set_progress(rec, 100)
          /\ wk' = [wk EXCEPT !.pc = "returned",
                              !.retval = <<"discovery", wk.k>>]
          /\ UNCHANGED proj
    /\ UNCHANGED <<ep, cn, runs, chat, aux>>

\* where the loop over the papers goes when analyze_paper has raised, were
\* the exception to leave the loop
after_paper_failure_abort(next) == "raised"

\* where the loop over the papers goes when analyze_paper has raised:
\* "except Exception as e: ... continue"
after_paper_failure(next) == next

\* paper_analysis_task.  analyze_paper raises when the provider call fails
\* and when its answer is not JSON (the JSONDecodeError handler builds
\* PaperAnalysis with keywords the dataclass does not have).
paper_analysis_task ==
    /\ wk.stage = "analysis"
    /\ \/ /\ wk.pc = "a44"
          /\ rec' = update_task_status(rec, "running", {5}, FALSE, <<>>, "")
          /\ Goto("a55") /\ UNCHANGED proj
       \/ /\ wk.pc = "a55"       \* load the papers, check, first tracker step
          /\ IF Missing("analysis", proj, wk.idea)
             THEN /\ wk' = [wk EXCEPT !.pc = "raised", !.exc = "ValueError",
                              !.absent = Absent("analysis", proj, wk.idea)]
                  /\ UNCHANGED rec
             ELSE /\ rec' = set_progress(rec,
                               Pct(1, Min(proj.papers, max_papers) + 2))
                  /\ wk' = [wk EXCEPT
                              !.n = Min(proj.papers, max_papers),
                              !.step = 1,
                              !.absent = Absent("analysis", proj, wk.idea),
                              !.pc = IF proj.papers = 0 THEN "a115" ELSE "a81"]
          /\ UNCHANGED proj
       \/ /\ wk.pc = "a81"
          /\ TrackerUpdate(wk.n + 2, "a85") /\ UNCHANGED proj
       \/ /\ wk.pc = "a85"       \* analyze_paper; a failure skips the paper
          /\ \E ok \in BOOLEAN :
                LET next == IF wk.i + 1 < wk.n THEN "a81" ELSE "a115"
                IN /\ proj' = [proj EXCEPT
                                 !.analyses = IF ok THEN @ + 1 ELSE @]
                   /\ wk' = [wk EXCEPT
                               !.llm = @ + 1,
                               !.analyzed = IF ok THEN @ + 1 ELSE @,
                               !.failed = IF ok THEN @ ELSE @ + 1,
                               !.i = @ + 1,
                               !.pc = IF ok THEN next
                                      ELSE after_paper_failure(next)]
          /\ UNCHANGED rec
       \/ /\ wk.pc = "a115"
          /\ TrackerUpdate(wk.n + 2, "a116") /\ UNCHANGED proj
       \/ /\ wk.pc = "a116"
          /\ proj' = [proj EXCEPT !.current_step = "analysis"]
          /\ wk' = [wk EXCEPT !.pc = "returned",
                              !.retval = <<"analysis", wk.analyzed>>]
          /\ UNCHANGED rec
    /\ UNCHANGED <<ep, cn, runs, chat, aux>>

\* ResearchLandscapeAnalyzer.analyze_landscape: "if not analyses: raise"
analyze_landscape_empty(n) == n = 0

\* landscape_analysis_task, with analyze_landscape inlined at l198
landscape_analysis_task ==
    /\ wk.stage = "landscape"
    /\ \/ /\ wk.pc = "l158"
          /\ rec' = update_task_status(rec, "running", {}, FALSE, <<>>, "")
          /\ Goto("l160") /\ UNCHANGED proj
       \/ /\ wk.pc = "l160"
          /\ TrackerUpdate(5, "l163") /\ UNCHANGED proj
       \/ /\ wk.pc = "l163"
          /\ IF Missing("landscape", proj, wk.idea)
             THEN /\ wk' = [wk EXCEPT !.pc = "raised", !.exc = "ValueError",
                              !.absent = Absent("landscape", proj, wk.idea)]
                  /\ UNCHANGED rec
             ELSE /\ rec' = set_progress(rec, Pct(wk.step + 1, 5))
                  /\ wk' = [wk EXCEPT
                              !.n = proj.analyses, !.step = @ + 1,
                              !.absent = Absent("landscape", proj, wk.idea),
                              !.pc = "l195"]
          /\ UNCHANGED proj
       \/ /\ wk.pc = "l195"
          /\ TrackerUpdate(5, "l198") /\ UNCHANGED proj
       \/ /\ wk.pc = "l198"
          /\ IF analyze_landscape_empty(wk.n)
             THEN Raise("ValueError")
             ELSE \E answer \in {"ok", "api_error", "bad_json"} :
                     wk' = [wk EXCEPT
                              !.llm = @ + 1,
                              !.answer = answer,
                              !.pc = IF answer = "ok" THEN "l200" ELSE "raised",
                              \* the JSONDecodeError handler builds the
                              \* placeholder with unknown keyword arguments
                              !.exc = CASE answer = "ok" -> @
                                        [] answer = "api_error" -> "Exception"
                                        [] answer = "bad_json" -> "TypeError"]
          /\ UNCHANGED <<rec, proj>>
       \/ /\ wk.pc = "l200"
          /\ TrackerUpdate(5, "l212") /\ UNCHANGED proj
       \/ /\ wk.pc = "l212"      \* project_id is unique in research_landscapes
          /\ IF proj.landscape # 0
             THEN Raise("IntegrityError") /\ UNCHANGED proj
             ELSE /\ proj' = [proj EXCEPT !.landscape = 1]
                  /\ Goto("l221")
          /\ UNCHANGED rec
       \/ /\ wk.pc = "l221"
          /\ proj' = [proj EXCEPT !.current_step = "landscape"]
          /\ wk' = [wk EXCEPT !.pc = "returned",
                              !.retval = <<"landscape", 1>>]
          /\ UNCHANGED rec
    /\ UNCHANGED <<ep, cn, runs, chat, aux>>

\* rows of the project after db.add(row) alone, with the session committing
\* on every add
db_add_autocommit(p) == [p EXCEPT !.ideas = @ + 1]

\* rows of the project after db.add(row) alone: SessionLocal is made with
\* autocommit=False, the row stays in the session until db.commit()
db_add(p) == p

\* idea_generation_task, with generate_ideas inlined at i76.  wk.bad is the
\* position of the first idea whose "title" in the provider's JSON is not a
\* string (0: none); idea.title[:30] raises TypeError on it.
idea_generation_task ==
    /\ wk.stage = "ideas"
    /\ \/ /\ wk.pc = "i45"
          /\ rec' = update_task_status(rec, "running", {}, FALSE, <<>>, "")
          /\ Goto("i47") /\ UNCHANGED proj
       \/ /\ wk.pc = "i47"
          /\ TrackerUpdate(num_ideas + 3, "i50") /\ UNCHANGED proj
       \/ /\ wk.pc = "i50"
          /\ IF Missing("ideas", proj, wk.idea)
             THEN /\ wk' = [wk EXCEPT !.pc = "raised", !.exc = "ValueError",
                              !.absent = Absent("ideas", proj, wk.idea)]
                  /\ UNCHANGED rec
             ELSE /\ rec' = set_progress(rec, Pct(wk.step + 1, num_ideas + 3))
                  /\ wk' = [wk EXCEPT
                              !.step = @ + 1,
                              !.absent = Absent("ideas", proj, wk.idea),
                              !.pc = "i76"]
          /\ UNCHANGED proj
       \/ /\ wk.pc = "i76"       \* a JSON error yields one placeholder idea
          /\ \E answer \in {"ok", "api_error", "bad_json"},
                count \in 0..Min(MaxIdeas, num_ideas),
                bad \in 0..Min(MaxIdeas, num_ideas) :
                /\ answer # "ok" => count = 0
                /\ bad <= count
                /\ LET k == IF answer = "bad_json" THEN 1 ELSE count
                   IN wk' = [wk EXCEPT
                               !.llm = @ + 1,
                               !.k = k,
                               !.bad = bad,
                               !.exc = IF answer = "api_error"
                                       THEN "Exception" ELSE @,
                               !.pc = CASE answer = "api_error" -> "raised"
                                        [] k > 0 -> "i82"
                                        [] OTHER -> "i98"]
          /\ UNCHANGED <<rec, proj>>
       \/ /\ wk.pc = "i82"       \* tracker.update and db.add for one idea
          /\ IF wk.i + 1 = wk.bad
             THEN Raise("TypeError") /\ UNCHANGED <<rec, proj>>
             ELSE /\ rec' = set_progress(rec,
                                         Pct(wk.step + 1, num_ideas + 3))
                  /\ wk' = [wk EXCEPT
                              !.step = @ + 1, !.i = @ + 1,
                              !.pc = IF wk.i + 1 < wk.k THEN "i82"
                                     ELSE "i98"]
                  /\ proj' = db_add(proj)
       \/ /\ wk.pc = "i98"       \* db.commit() of the added ideas
          /\ proj' = [proj EXCEPT !.ideas = @ + wk.k]
          /\ Goto("i101") /\ UNCHANGED rec
       \/ /\ wk.pc = "i101"
          /\ TrackerUpdate(num_ideas + 3, "i108") /\ UNCHANGED proj
       \/ /\ wk.pc = "i108"
          /\ proj' = [proj EXCEPT !.current_step = "ideas"]
          /\ wk' = [wk EXCEPT !.pc = "returned", !.retval = <<"ideas", wk.k>>]
          /\ UNCHANGED rec
    /\ UNCHANGED <<ep, cn, runs, chat, aux>>

\* method_design_task: reading idea_db.hypothesis, a column ResearchIdeaDB
\* does not have, raises AttributeError; the rest of the body is dead code
method_design_task ==
    /\ wk.stage = "method"
    /\ \/ /\ wk.pc = "m150"
          /\ rec' = update_task_status(rec, "running", {}, FALSE, <<>>, "")
          /\ Goto("m152")
       \/ /\ wk.pc = "m152"
          /\ TrackerUpdate(4, "m155")
       \/ /\ wk.pc = "m155"
          /\ IF Missing("method", proj, wk.idea)
             THEN /\ wk' = [wk EXCEPT !.pc = "raised", !.exc = "ValueError",
                              !.absent = Absent("method", proj, wk.idea)]
                  /\ UNCHANGED rec
             ELSE /\ rec' = set_progress(rec, Pct(wk.step + 1, 4))
                  /\ wk' = [wk EXCEPT
                              !.step = @ + 1,
                              !.absent = Absent("method", proj, wk.idea),
                              !.pc = "m173"]
       \/ /\ wk.pc = "m173"
          /\ Raise("AttributeError") /\ UNCHANGED rec
    /\ UNCHANGED <<proj, ep, cn, runs, chat, aux>>

\* paper_draft_task: stops at idea_db.hypothesis like method_design_task
paper_draft_task ==
    /\ wk.stage = "draft"
    /\ \/ /\ wk.pc = "p249"
          /\ rec' = update_task_status(rec, "running", {}, FALSE, <<>>, "")
          /\ Goto("p251")
       \/ /\ wk.pc = "p251"
          /\ TrackerUpdate(8, "p254")
       \/ /\ wk.pc = "p254"
          /\ IF Missing("draft", proj, wk.idea)
             THEN /\ wk' = [wk EXCEPT !.pc = "raised", !.exc = "ValueError",
                              !.absent = Absent("draft", proj, wk.idea)]
                  /\ UNCHANGED rec
             ELSE /\ rec' = set_progress(rec, Pct(wk.step + 1, 8))
                  /\ wk' = [wk EXCEPT
                              !.step = @ + 1,
                              !.absent = Absent("draft", proj, wk.idea),
                              !.pc = "p281"]
       \/ /\ wk.pc = "p281"
          /\ Raise("AttributeError") /\ UNCHANGED rec
    /\ UNCHANGED <<proj, ep, cn, runs, chat, aux>>

\* ------------------------------------------------- the provider chat call
Pow2(k) == IF k = 0 THEN 1 ELSE 2 ^ k

\* BaseLLM._validate_budget: max_cost_per_request 0 stands for None (and
\* for 0.0, which the truth test treats alike)
_validate_budget(max_cost, estimated_cost) ==
    IF max_cost # 0 /\ estimated_cost > max_cost THEN FALSE ELSE TRUE

\* a chat call starts: the configured max_retries and max_cost_per_request,
\* the cost the request would be estimated at, and what the provider
\* would answer to the first, second, ... request if it is made.  The
\* body of chat goes from its parameters to the retry loop: it computes no
\* estimate and does not call _validate_budget.
chat_call ==
    /\ chat.pc = "idle"
    /\ \E m \in 0..MaxRetriesArg, mc \in 0..MaxCost,
          est \in 0..(MaxCost + 1),
          plan \in [1..(MaxRetriesArg + 1) -> {"ok", "error"}] :
          chat' = [IdleChat EXCEPT !.pc = "loop", !.max_retries = m,
                                   !.max_cost_per_request = mc,
                                   !.estimated_cost = est,
                                   !.plan = plan]
    /\ UNCHANGED <<proj, rec, ep, wk, cn, runs, aux>>

\* number of iterations if max_retries counted the retries after a first
\* attempt
attempts_allowed_after_first(m) == m + 1

\* number of iterations of "for attempt in range(self.config.max_retries)"
attempts_allowed(m) == m

\* one iteration of the retry loop of OpenAILLM.chat (ClaudeLLM.chat and
\* GeminiLLM.chat have the same loop), or its exit when range is exhausted
chat_attempt ==
    /\ chat.pc = "loop"
    /\ IF chat.attempt >= attempts_allowed(chat.max_retries)
       THEN chat' = [chat EXCEPT !.pc = "raise"]
       ELSE IF chat.plan[chat.attempt + 1] = "ok"
       THEN chat' = [chat EXCEPT !.calls = @ + 1, !.pc = "done",
                        !.result = <<"response", chat.attempt + 1>>]
       ELSE IF chat.attempt < chat.max_retries - 1
       THEN chat' = [chat EXCEPT !.calls = @ + 1, !.attempt = @ + 1,
                        !.waits = Append(@, Pow2(chat.attempt))]
       ELSE chat' = [chat EXCEPT !.calls = @ + 1, !.pc = "raise"]
    /\ UNCHANGED <<proj, rec, ep, wk, cn, runs, aux>>

\* raise Exception("... API call failed after N retries: last_error")
chat_raise ==
    /\ chat.pc = "raise"
    /\ chat' = [chat EXCEPT !.pc = "done", !.result = <<"error", chat.calls>>]
    /\ UNCHANGED <<proj, rec, ep, wk, cn, runs, aux>>

\* ------------------------------------------------------ draft generation
\* Two generators exist: generate_paper_draft (modules/paper_drafting.py,
\* called by the command-line workflow) and PaperDraftGenerator.generate_draft
\* (modules/paper_draft_generator.py, called by paper_draft_task).
Generators == {"generate_paper_draft", "generate_draft"}

\* section_order of each generator
section_order(gen) ==
    IF gen = "generate_paper_draft"
    THEN <<"abstract", "introduction", "related_work", "method",
           "experiments", "discussion", "conclusion">>
    ELSE <<"abstract", "introduction", "related_work", "method",
           "experiment", "conclusion">>

determine_source_type(section_key) ==
    IF section_key \in {"related_work"} THEN "literature"
    ELSE IF section_key \in {"method", "introduction"} THEN "original"
    ELSE IF section_key \in {"experiments", "discussion"} THEN "hypothesis"
    ELSE "original"

\* a PaperSection; content is "generated" for the provider's text and
\* "placeholder" for "[Section generation failed: ...]"
PaperSection(section_name, content, source_type) ==
    [section_name |-> section_name, content |-> content,
     source_type |-> source_type]

IdleDraft ==
    [pc |-> "idle", gen |-> None, legacy |-> FALSE, plan |-> <<>>,
     title_ok |-> FALSE, sections |-> <<>>, failed |-> {}, calls |-> 0,
     exc |-> "", result |-> None, title |-> None]

\* a draft generation starts: the generator, what the provider would do
\* with the request for each section and for the title, and, for
\* generate_draft, whether idea and method are objects that carry the
\* attributes its prompts read (hypothesis, contributions,
\* algorithm_framework, key_modules, innovation_points, ...; legacy TRUE)
\* or instances of models.ResearchIdea and models.MethodDesign, which do
\* not define them (legacy FALSE)
draft_call ==
    /\ dg.pc = "idle"
    /\ \E gen \in Generators, legacy \in BOOLEAN, title_ok \in BOOLEAN :
          /\ gen = "generate_paper_draft" => ~legacy
          /\ gen = "generate_draft" => ~title_ok
          /\ \E plan \in [1..Len(section_order(gen)) -> {"ok", "error"}] :
                dg' = [IdleDraft EXCEPT !.pc = "section", !.gen = gen,
                                        !.legacy = legacy, !.plan = plan,
                                        !.title_ok = title_ok]
    /\ UNCHANGED <<engine, ms, rl, nt, rk, rg, met, mg, rt, ri, pg, wf, sm>>

\* paper_drafting.generate_section: the provider call is inside a try whose
\* handler logs and re-raises
generate_section(key, answer) ==
    IF answer = "ok"
    THEN dg' = [dg EXCEPT
                  !.calls = @ + 1,
                  !.sections = Append(@, PaperSection(key, "generated",
                                          determine_source_type(key))),
                  !.pc = IF Len(dg.sections) + 1
                            = Len(section_order(dg.gen))
                         THEN "build" ELSE "section"]
    ELSE dg' = [dg EXCEPT !.calls = @ + 1, !.failed = @ \cup {key},
                          !.pc = "done", !.exc = "Exception"]

\* PaperDraftGenerator._generate_section and the PaperSection its caller
\* builds from the returned text: the prompts of all six sections are
\* formatted before the try, the provider call is inside it and its handler
\* returns the placeholder text
_generate_section(key, answer) ==
    IF ~dg.legacy
    THEN dg' = [dg EXCEPT !.pc = "done", !.exc = "AttributeError"]
    ELSE dg' = [dg EXCEPT
                  !.calls = @ + 1,
                  !.failed = IF answer = "ok" THEN @ ELSE @ \cup {key},
                  !.sections = Append(@, PaperSection(key,
                                  IF answer = "ok" THEN "generated"
                                  ELSE "placeholder", "ai_generated")),
                  !.pc = IF Len(dg.sections) + 1
                            = Len(section_order(dg.gen))
                         THEN "build" ELSE "section"]

\* one iteration of the loop over section_order
draft_section ==
    /\ dg.pc = "section"
    /\ LET i == Len(dg.sections) + 1
           key == section_order(dg.gen)[i]
       IN IF dg.gen = "generate_paper_draft"
          THEN generate_section(key, dg.plan[i])
          ELSE _generate_section(key, dg.plan[i])
    /\ UNCHANGED <<engine, ms, rl, nt, rk, rg, met, mg, rt, ri, pg, wf, sm>>

\* after the loop: generate_paper_draft asks for a title (a failed call
\* gives the fallback title) and builds the PaperDraft; generate_draft
\* calls PaperDraft(id=, idea_id=, title=, sections=), keywords the
\* dataclass does not have
draft_build ==
    /\ dg.pc = "build"
    /\ IF dg.gen = "generate_paper_draft"
       THEN dg' = [dg EXCEPT !.calls = @ + 1, !.pc = "done",
                             !.title = IF dg.title_ok THEN "generated"
                                       ELSE "fallback",
                             !.result = "draft"]
       ELSE dg' = [dg EXCEPT !.pc = "done", !.exc = "TypeError"]
    /\ UNCHANGED <<engine, ms, rl, nt, rk, rg, met, mg, rt, ri, pg, wf, sm>>

\* ------------------------------------------- multi-source search, fusion
\* A title is a sequence of characters of a small alphabet: an upper-case
\* and two lower-case letters, a punctuation mark, the space and the tab.
lower(c) == IF c = "A" THEN "a" ELSE c

\* the classes \w and \s of the regular expressions of normalize_title
IsWord(c) == c \in {"A", "a", "b"}
IsSpace(c) == c \in {" ", "\t"}

\* re.sub(r'\s+', ' ', title), from position i on
RECURSIVE collapse(_, _)
collapse(t, i) ==
    IF i > Len(t) THEN <<>>
    ELSE IF IsSpace(t[i]) /\ i > 1 /\ IsSpace(t[i - 1])
    THEN collapse(t, i + 1)
    ELSE <<IF IsSpace(t[i]) THEN " " ELSE t[i]>> \o collapse(t, i + 1)

\* str.strip()
RECURSIVE strip(_)
strip(t) ==
    IF Len(t) = 0 THEN t
    ELSE IF IsSpace(t[1]) THEN strip(Tail(t))
    ELSE IF IsSpace(t[Len(t)]) THEN strip(SubSeq(t, 1, Len(t) - 1))
    ELSE t

\* normalize_title with the strip done before the two substitutions
normalize_title_strip_first(title) ==
    LET lowered == [i \in 1..Len(title) |-> lower(title[i])]
        kept == SelectSeq(strip(lowered), LAMBDA c : IsWord(c) \/ IsSpace(c))
    IN collapse(kept, 1)

normalize_title(title) ==
    LET lowered == [i \in 1..Len(title) |-> lower(title[i])]
        kept == SelectSeq(lowered, LAMBDA c : IsWord(c) \/ IsSpace(c))
    IN strip(collapse(kept, 1))

\* the characters of the titles normalize_title is applied to on its own
Alphabet == {"A", "a", "-", " ", "\t"}

IdleNormalize == [pc |-> "idle", title |-> <<>>, once |-> <<>>, twice |-> <<>>]

\* a title is chosen
normalize_call ==
    /\ nt.pc = "idle"
    /\ \E n \in 0..MaxTitleLen : \E title \in [1..n -> Alphabet] :
          nt' = [IdleNormalize EXCEPT !.pc = "called", !.title = title]
    /\ UNCHANGED <<engine, dg, ms, rl, rk, rg, met, mg, rt, ri, pg, wf, sm>>

\* normalize_title(title)
normalize_once ==
    /\ nt.pc = "called"
    /\ nt' = [nt EXCEPT !.pc = "once", !.once = normalize_title(nt.title)]
    /\ UNCHANGED <<engine, dg, ms, rl, rk, rg, met, mg, rt, ri, pg, wf, sm>>

\* normalize_title applied to its own result
normalize_twice ==
    /\ nt.pc = "once"
    /\ nt' = [nt EXCEPT !.pc = "done", !.twice = normalize_title(nt.once)]
    /\ UNCHANGED <<engine, dg, ms, rl, rk, rg, met, mg, rt, ri, pg, wf, sm>>

\* source names: the two that have an adapter, and one that has none
Sources == {"arxiv", "semantic_scholar", "pubmed"}

\* titles of the records: the first two have the same normalized title
Titles == {<<"A">>, <<"a", "-">>, <<"b">>}

\* the arXiv ids of the records
ArxivIds == {1}

\* a PaperMetadata record.  arxiv_id 0 stands for None; the field source
\* stands for the fields in which the records of two sources differ (url,
\* journal, ...), so that records of different sources are never equal.
PaperMetadata(source) ==
    [source : {source}, arxiv_id : {0} \cup ArxivIds, title : Titles]

\* the lists a mapping can be flattened to: the records of one source are
\* contiguous, a dict having one entry per key
Flattened(n) ==
    {l \in [1..n -> UNION {PaperMetadata(s) : s \in Sources}] :
        \A i, j, k \in 1..n :
            (i < j /\ j < k /\ l[i].source = l[k].source)
                => l[j].source = l[i].source}

IdleSearch ==
    [pc |-> "idle", sources |-> {}, adapters |-> <<>>, results |-> <<>>,
     all_papers |-> <<>>, i |-> 0, seen_arxiv_ids |-> {},
     seen_titles |-> <<>>, unique_papers |-> <<>>]

\* the adapter of a source that is not requested is not called
NotCalled == [raised |-> FALSE, papers |-> <<>>]

\* what the adapter of a source does: it raises, or returns a list of
\* records
AdapterOutcomes(source, requested) ==
    IF source \notin requested THEN {NotCalled}
    ELSE {[raised |-> TRUE, papers |-> <<>>]}
           \cup {[raised |-> FALSE, papers |-> l] :
                    l \in UNION {[1..n -> PaperMetadata(source)] :
                                   n \in 0..MaxReturned}}

\* the entry of a source whose adapter raised, were the handler to leave
\* the source out of the results
failed_entry_omitted(source) == <<>>

\* the entry of a source whose adapter raised: results[source] = []
failed_entry(source) == <<[source |-> source, papers |-> <<>>]>>

\* the entry search_multi_source makes for one source: none when the
\* source is not requested
entry(source, requested, outcome) ==
    IF source \notin requested THEN <<>>
    ELSE IF outcome.raised THEN failed_entry(source)
    ELSE <<[source |-> source, papers |-> outcome.papers]>>

\* search_multi_source: the requested sources and what each adapter does
\* when called; results is the dict, in insertion order
search_multi_source ==
    /\ ms.pc = "idle"
    /\ \E sources \in SUBSET Sources :
       \E a \in AdapterOutcomes("arxiv", sources),
          s2 \in AdapterOutcomes("semantic_scholar", sources) :
          ms' = [IdleSearch EXCEPT
                   !.pc = "searched",
                   !.sources = sources,
                   !.adapters = [arxiv |-> a, semantic_scholar |-> s2],
                   !.results = entry("arxiv", sources, a)
                                 \o entry("semantic_scholar", sources, s2)]
    /\ UNCHANGED <<engine, dg, rl, nt, rk, rg, met, mg, rt, ri, pg, wf, sm>>

\* all_papers of merge_and_deduplicate: the records of the mapping's lists
RECURSIVE flatten(_)
flatten(results) ==
    IF Len(results) = 0 THEN <<>>
    ELSE results[1].papers \o flatten(Tail(results))

\* merge_and_deduplicate(multi_results) of literature_discovery_task
merge_results ==
    /\ ms.pc = "searched"
    /\ ms' = [ms EXCEPT !.pc = "loop", !.all_papers = flatten(ms.results)]
    /\ UNCHANGED <<engine, dg, rl, nt, rk, rg, met, mg, rt, ri, pg, wf, sm>>

\* merge_and_deduplicate called on any mapping
merge_and_deduplicate ==
    /\ ms.pc = "idle"
    /\ \E n \in 0..MaxPapers : \E l \in Flattened(n) :
          ms' = [IdleSearch EXCEPT !.pc = "loop", !.all_papers = l]
    /\ UNCHANGED <<engine, dg, rl, nt, rk, rg, met, mg, rt, ri, pg, wf, sm>>

\* source_priority.get(source, 1)
source_priority(source) ==
    CASE source = "arxiv" -> 3
      [] source = "semantic_scholar" -> 2
      [] OTHER -> 1

\* seen_titles is a list of (title_norm, paper) pairs, one per title
seen(titles, title_norm) ==
    \E k \in 1..Len(titles) : titles[k].title_norm = title_norm

existing(titles, title_norm) ==
    titles[CHOOSE k \in 1..Len(titles) :
              titles[k].title_norm = title_norm].paper

\* one iteration of the loop over all_papers, and the return after the last
merge_step ==
    /\ ms.pc = "loop"
    /\ IF ms.i = Len(ms.all_papers)
       THEN ms' = [ms EXCEPT !.pc = "done"]
       ELSE LET paper == ms.all_papers[ms.i + 1]
                title_norm == normalize_title(paper.title)
                ids == IF paper.arxiv_id # 0
                       THEN ms.seen_arxiv_ids \cup {paper.arxiv_id}
                       ELSE ms.seen_arxiv_ids
            IN IF paper.arxiv_id # 0
                    /\ paper.arxiv_id \in ms.seen_arxiv_ids
               THEN ms' = [ms EXCEPT !.i = @ + 1]
               ELSE IF seen(ms.seen_titles, title_norm)
               THEN LET existing_paper ==
                            existing(ms.seen_titles, title_norm)
                    IN IF source_priority(paper.source)
                            > source_priority(existing_paper.source)
                       THEN ms' = [ms EXCEPT
                              !.i = @ + 1,
                              !.seen_arxiv_ids = ids,
                              !.unique_papers =
                                  Append(SelectSeq(@, LAMBDA p :
                                             p # existing_paper), paper),
                              !.seen_titles =
                                  [k \in 1..Len(@) |->
                                     IF @[k].title_norm = title_norm
                                     THEN [title_norm |-> title_norm,
                                           paper |-> paper]
                                     ELSE @[k]]]
                       ELSE ms' = [ms EXCEPT !.i = @ + 1,
                                             !.seen_arxiv_ids = ids]
               ELSE ms' = [ms EXCEPT
                             !.i = @ + 1,
                             !.seen_arxiv_ids = ids,
                             !.unique_papers = Append(@, paper),
                             !.seen_titles =
                                 Append(@, [title_norm |-> title_norm,
                                            paper |-> paper])]
    /\ UNCHANGED <<engine, dg, rl, nt, rk, rg, met, mg, rt, ri, pg, wf, sm>>

\* ------------------------------------------------------ relevance scoring
\* Scores are counted in thousandths: One is the score 1.0.
One == 1000

\* the two scoring functions: calculate_cross_source_relevance is the one
\* literature_discovery_task calls, score_relevance the one of the
\* command-line discovery
Scorers == {"calculate_cross_source_relevance", "score_relevance"}

\* paper.published: a value whose year does not parse (or None), or a date
\* with its age current_year - year: a year far in the future, this year,
\* ten years ago, thirty years ago
Published ==
    {[parses |-> FALSE, age |-> 0]}
        \cup {[parses |-> TRUE, age |-> a] : a \in {-1000, 0, 10, 30}}

\* max(0, recency * weight) with recency = 1.0 - (current_year - year)/10.0
\* and weight 0.15 (multi_source_search.py) or 0.1 (literature_discovery.py)
recency_bonus(fn, published) ==
    IF ~published.parses THEN 0
    ELSE LET weight == IF fn = "score_relevance" THEN 100 ELSE 150
             recency == One - 100 * published.age
         IN Max(0, (recency * weight) \div One)

\* the score before it is clamped
raw_score(fn, title_hits, abstract_hits, type_match, published, arxiv) ==
    300 * title_hits + 100 * abstract_hits
        + (IF type_match THEN 200 ELSE 0)
        + recency_bonus(fn, published)
        + (IF arxiv /\ fn # "score_relevance" THEN 50 ELSE 0)

\* the score as it is, were it stored without min(1.0, score)
clamp_none(score) == score

\* paper.relevance_score = min(1.0, score)
clamp(score) == Min(One, score)

\* whether list.sort(key=relevance_score, reverse=True) would order a
\* before b when b comes later in the list and ties were reversed
stays_before_strict(a, b) == a.relevance_score > b.relevance_score

\* whether list.sort(key=relevance_score, reverse=True) leaves a before b
\* when b comes later in the list: the sort is stable, reverse included
stays_before(a, b) == a.relevance_score >= b.relevance_score

\* papers.sort(key=lambda p: p.relevance_score, reverse=True), as the
\* insertion of each element, in list order, into the sorted prefix
RECURSIVE insert_desc(_, _)
insert_desc(sorted, p) ==
    IF Len(sorted) = 0 THEN <<p>>
    ELSE IF stays_before(Head(sorted), p)
    THEN <<Head(sorted)>> \o insert_desc(Tail(sorted), p)
    ELSE <<p>> \o sorted

RECURSIVE sort_desc(_)
sort_desc(papers) ==
    IF Len(papers) = 0 THEN <<>>
    ELSE insert_desc(sort_desc(SubSeq(papers, 1, Len(papers) - 1)),
                     papers[Len(papers)])

IdleRelevance ==
    [pc |-> "idle", fn |-> None, keywords |-> 0, n |-> 0, papers |-> <<>>,
     raw |-> 0]

\* a scoring call: the function, the number of keywords of the intent and
\* the length of the list
relevance_call ==
    /\ rl.pc = "idle"
    /\ \E fn \in Scorers, keywords \in 0..MaxKeywords, n \in 0..MaxScored :
          rl' = [IdleRelevance EXCEPT !.pc = "loop", !.fn = fn,
                                      !.keywords = keywords, !.n = n]
    /\ UNCHANGED <<engine, dg, ms, nt, rk, rg, met, mg, rt, ri, pg, wf, sm>>

\* one iteration of "for paper in papers": how many keywords the title and
\* the abstract contain, whether the type matches, the publication date and
\* whether the paper has an arXiv id.  A paper is kept as its position in
\* the input list and its score; raw is the unclamped score of the paper
\* scored last.
relevance_paper ==
    /\ rl.pc = "loop"
    /\ Len(rl.papers) < rl.n
    /\ \E title_hits \in 0..rl.keywords, abstract_hits \in 0..rl.keywords,
          type_match \in BOOLEAN, published \in Published,
          arxiv \in BOOLEAN :
          LET score == raw_score(rl.fn, title_hits, abstract_hits,
                                 type_match, published, arxiv)
          IN rl' = [rl EXCEPT
                      !.raw = score,
                      !.papers = Append(@, [id |-> Len(@) + 1,
                                            relevance_score |-> clamp(score)])]
    /\ UNCHANGED <<engine, dg, ms, nt, rk, rg, met, mg, rt, ri, pg, wf, sm>>

\* after the loop: calculate_cross_source_relevance sorts the list in
\* place and returns it, score_relevance returns it as it is
relevance_return ==
    /\ rl.pc = "loop"
    /\ Len(rl.papers) = rl.n
    /\ rl' = [rl EXCEPT
                !.pc = "done",
                !.papers = IF rl.fn = "calculate_cross_source_relevance"
                           THEN sort_desc(@) ELSE @]
    /\ UNCHANGED <<engine, dg, ms, nt, rk, rg, met, mg, rt, ri, pg, wf, sm>>

\* ------------------------------------------------------------ rank_ideas
\* novelty_score and feasibility_score of the ideas, in tenths
Scores == {0, 1, 2, 4}

\* 0.6 * novelty + 0.4 * feasibility in exact arithmetic, in hundredths
composite(idea) == 6 * idea.novelty_score + 4 * idea.feasibility_score

\* the rounding error of the float 0.6 * novelty + 0.4 * feasibility, in
\* units of the last place: on the scores above, the computed value is one
\* unit over the float nearest to the exact value for these four ideas and
\* equal to it for the others
rounding(idea) ==
    IF <<idea.novelty_score, idea.feasibility_score>>
          \in {<<0, 1>>, <<0, 2>>, <<0, 4>>, <<1, 4>>}
    THEN 1 ELSE 0

\* the sort key score(idea): the float, as a number that orders as it does
score(idea) == 4 * composite(idea) + rounding(idea)

\* whether sorted(key=score, reverse=True) would order a before b when b
\* comes later in the list and ties were reversed
ranks_before_strict(a, b) == score(a) > score(b)

\* whether sorted(key=score, reverse=True) leaves a before b when b comes
\* later in the list: the sort is stable, reverse included
ranks_before(a, b) == score(a) >= score(b)

\* sorted(ideas, key=score, reverse=True), as the insertion of each idea,
\* in list order, into the sorted prefix
RECURSIVE insert_ranked(_, _)
insert_ranked(sorted, idea) ==
    IF Len(sorted) = 0 THEN <<idea>>
    ELSE IF ranks_before(Head(sorted), idea)
    THEN <<Head(sorted)>> \o insert_ranked(Tail(sorted), idea)
    ELSE <<idea>> \o sorted

RECURSIVE sorted_ideas(_)
sorted_ideas(ideas) ==
    IF Len(ideas) = 0 THEN <<>>
    ELSE insert_ranked(sorted_ideas(SubSeq(ideas, 1, Len(ideas) - 1)),
                       ideas[Len(ideas)])

\* the lists of n ideas: idea k carries its position k in the list
Ideas(n) ==
    {l \in [1..n -> [id : 1..n, novelty_score : Scores,
                     feasibility_score : Scores]] :
        \A k \in 1..n : l[k].id = k}

IdleRank == [pc |-> "idle", ideas |-> <<>>, returned |-> <<>>]

\* rank_ideas is called with a list of ideas
rank_call ==
    /\ rk.pc = "idle"
    /\ \E n \in 0..MaxRanked : \E ideas \in Ideas(n) :
          rk' = [IdleRank EXCEPT !.pc = "called", !.ideas = ideas]
    /\ UNCHANGED <<engine, dg, ms, rl, nt, rg, met, mg, rt, ri, pg, wf, sm>>

\* rank_ideas returns the sorted copy
rank_ideas ==
    /\ rk.pc = "called"
    /\ rk' = [rk EXCEPT !.pc = "done", !.returned = sorted_ideas(rk.ideas)]
    /\ UNCHANGED <<engine, dg, ms, rl, nt, rg, met, mg, rt, ri, pg, wf, sm>>

\* ------------------------------------------------------------ LLMManager
\* the names instances are registered under; the empty string is a str too
Names == {"", "fast", "smart"}

Threads == 1..MaxThreads

\* the value of _llms.get(name) for a name that is not a key of _llms; the
\* instances are numbered from 1 in the order LLMFactory.create makes them
Unregistered == 0

\* not x, for x the default name: None and the empty string are false
falsy(x) == x = None \/ x = ""

\* name in self._llms
registered(llms, name) == name \in Names /\ llms[name] # Unregistered

\* _llms and _default_llm after register_llm has stored instance inst
\* under name
register_result(llms, default, name, inst, is_default) ==
    [llms |-> [llms EXCEPT ![name] = inst],
     default |-> IF is_default \/ falsy(default) THEN name ELSE default]

\* the name get_llm would look up if it never fell back on the default
resolve_given(name, default) == name

\* the name get_llm looks up
resolve(name, default) == IF name = None THEN default ELSE name

EmptyRegistry == [n \in Names |-> Unregistered]

\* the call last made on the manager, with _llms and _default_llm as they
\* were when it was made
NoCall ==
    [kind |-> None, name |-> None, is_default |-> FALSE, outcome |-> None,
     returned |-> Unregistered, llms0 |-> EmptyRegistry, default0 |-> None]

\* a thread inside register_llm
IdleThread == [pc |-> "idle", name |-> None, is_default |-> FALSE,
               inst |-> Unregistered]

IdleRegistry ==
    [llms |-> EmptyRegistry, default |-> None, made |-> 0, op |-> NoCall,
     th |-> [t \in Threads |-> IdleThread]]

\* register_llm, run without interruption
register_llm ==
    /\ rg.made < MaxRegistered
    /\ \E name \in Names, is_default \in BOOLEAN :
          LET r == register_result(rg.llms, rg.default, name, rg.made + 1,
                                   is_default)
          IN  rg' = [rg EXCEPT !.llms = r.llms,
                               !.default = r.default,
                               !.made = rg.made + 1,
                               !.op = [NoCall EXCEPT
                                          !.kind = "register_llm",
                                          !.name = name,
                                          !.is_default = is_default,
                                          !.outcome = "ok",
                                          !.llms0 = rg.llms,
                                          !.default0 = rg.default]]
    /\ UNCHANGED <<engine, dg, ms, rl, nt, rk, met, mg, rt, ri, pg, wf, sm>>

\* set_default_llm
set_default_llm ==
    /\ \E name \in Names :
          LET call == [NoCall EXCEPT !.kind = "set_default_llm",
                                     !.name = name,
                                     !.llms0 = rg.llms,
                                     !.default0 = rg.default]
          IN  IF ~registered(rg.llms, name)
              THEN rg' = [rg EXCEPT !.op = [call EXCEPT
                                               !.outcome = "ValueError"]]
              ELSE rg' = [rg EXCEPT !.default = name,
                                    !.op = [call EXCEPT !.outcome = "ok"]]
    /\ UNCHANGED <<engine, dg, ms, rl, nt, rk, met, mg, rt, ri, pg, wf, sm>>

\* get_llm
get_llm ==
    /\ \E name \in Names \cup {None} :
          LET call == [NoCall EXCEPT !.kind = "get_llm",
                                     !.name = name,
                                     !.llms0 = rg.llms,
                                     !.default0 = rg.default]
              looked_up == resolve(name, rg.default)
          IN  IF ~registered(rg.llms, looked_up)
              THEN rg' = [rg EXCEPT !.op = [call EXCEPT
                                               !.outcome = "ValueError"]]
              ELSE rg' = [rg EXCEPT !.op = [call EXCEPT
                                               !.outcome = "ok",
                                               !.returned =
                                                   rg.llms[looked_up]]]
    /\ UNCHANGED <<engine, dg, ms, rl, nt, rk, met, mg, rt, ri, pg, wf, sm>>

\* a thread enters register_llm and LLMFactory.create makes its instance
register_l57(t) ==
    /\ rg.th[t].pc = "idle"
    /\ \E name \in Names, is_default \in BOOLEAN :
          rg' = [rg EXCEPT !.made = rg.made + 1,
                           !.th[t] = [pc |-> "l58", name |-> name,
                                      is_default |-> is_default,
                                      inst |-> rg.made + 1]]
    /\ UNCHANGED <<engine, dg, ms, rl, nt, rk, met, mg, rt, ri, pg, wf, sm>>

\* self._llms[name] = llm
register_l58(t) ==
    /\ rg.th[t].pc = "l58"
    /\ rg' = [rg EXCEPT !.llms[rg.th[t].name] = rg.th[t].inst,
                         !.th[t].pc = "l60"]
    /\ UNCHANGED <<engine, dg, ms, rl, nt, rk, met, mg, rt, ri, pg, wf, sm>>

\* if is_default or not self._default_llm
register_l60(t) ==
    /\ rg.th[t].pc = "l60"
    /\ rg' = [rg EXCEPT !.th[t].pc =
                  IF rg.th[t].is_default \/ falsy(rg.default)
                  THEN "l61" ELSE "done"]
    /\ UNCHANGED <<engine, dg, ms, rl, nt, rk, met, mg, rt, ri, pg, wf, sm>>

\* self._default_llm = name
register_l61(t) ==
    /\ rg.th[t].pc = "l61"
    /\ rg' = [rg EXCEPT !.default = rg.th[t].name, !.th[t].pc = "done"]
    /\ UNCHANGED <<engine, dg, ms, rl, nt, rk, met, mg, rt, ri, pg, wf, sm>>

\* ------------------------------------------------------ MetricsCollector
\* the keys provider/model of llm_calls
Keys == {"openai/gpt-4", "gemini/gemini-pro"}

\* the costs of a call, in cost units, and its input plus output tokens
Costs == {0, 3}

Tokens == {0, 7}

\* the entry the defaultdict makes for a key on first use
NoCalls == [count |-> 0, tokens |-> 0, cost |-> 0, errors |-> 0]

\* self._lock when no thread holds it; a held lock carries its thread
Unlocked == 0

\* a thread in record_llm_call; read is the value it last loaded for +=
IdleRecorder == [pc |-> "idle", key |-> None, tokens |-> 0, cost |-> 0,
                 success |-> TRUE, read |-> 0]

\* the keys of a defaultdict after key has been looked up
inserted(keys, key) ==
    IF \E i \in 1..Len(keys) : keys[i] = key THEN keys
    ELSE Append(keys, key)

\* keys holds the keys of llm_calls in the order they were inserted;
\* invoked and failures count the record_llm_call invocations made and
\* those made with success=False
IdleMetrics ==
    [lock |-> Unlocked,
     llm_calls |-> [k \in Keys |-> NoCalls],
     keys |-> <<>>,
     th |-> [t \in Threads |-> IdleRecorder],
     invoked |-> [k \in Keys |-> 0],
     failures |-> [k \in Keys |-> 0]]

\* record_llm_call, run without interruption, on llm_calls
record_llm_call(llm_calls, key, tokens, cost, success) ==
    [llm_calls EXCEPT ![key] =
        [count |-> @.count + 1,
         tokens |-> @.tokens + tokens,
         cost |-> @.cost + cost,
         errors |-> IF success THEN @.errors ELSE @.errors + 1]]

\* whether a thread would enter the with block if the lock were not there
can_acquire_unlocked(t) == TRUE

\* whether a thread can enter with self._lock
can_acquire(t) == met.lock = Unlocked

\* a thread calls record_llm_call
record_l41(t) ==
    /\ met.th[t].pc = "idle"
    /\ \E key \in Keys, tokens \in Tokens, cost \in Costs,
          success \in BOOLEAN :
          /\ met.invoked["openai/gpt-4"] + met.invoked["gemini/gemini-pro"]
                < MaxRecorded
          /\ met' = [met EXCEPT
                       !.th[t] = [IdleRecorder EXCEPT !.pc = "l52",
                                                      !.key = key,
                                                      !.tokens = tokens,
                                                      !.cost = cost,
                                                      !.success = success],
                       !.invoked[key] = @ + 1,
                       !.failures[key] = IF success THEN @ ELSE @ + 1]
    /\ UNCHANGED <<engine, dg, ms, rl, nt, rk, rg, mg, rt, ri, pg, wf, sm>>

\* with self._lock
record_l52(t) ==
    /\ met.th[t].pc = "l52"
    /\ can_acquire(t)
    /\ met' = [met EXCEPT !.lock = t, !.th[t].pc = "l53"]
    /\ UNCHANGED <<engine, dg, ms, rl, nt, rk, rg, mg, rt, ri, pg, wf, sm>>

\* ["count"] += 1: the load, which makes the entry of a new key
record_l53(t) ==
    /\ met.th[t].pc = "l53"
    /\ met' = [met EXCEPT !.th[t].read = met.llm_calls[met.th[t].key].count,
                         !.keys = inserted(@, met.th[t].key),
                         !.th[t].pc = "l53_store"]
    /\ UNCHANGED <<engine, dg, ms, rl, nt, rk, rg, mg, rt, ri, pg, wf, sm>>

\* ["count"] += 1: the store
record_l53_store(t) ==
    /\ met.th[t].pc = "l53_store"
    /\ met' = [met EXCEPT !.llm_calls[met.th[t].key].count = met.th[t].read + 1,
                         !.th[t].pc = "l54"]
    /\ UNCHANGED <<engine, dg, ms, rl, nt, rk, rg, mg, rt, ri, pg, wf, sm>>

\* ["tokens"] += input_tokens + output_tokens and ["cost"] += cost
record_l54(t) ==
    /\ met.th[t].pc = "l54"
    /\ met' = [met EXCEPT !.llm_calls[met.th[t].key].tokens = @ + met.th[t].tokens,
                         !.llm_calls[met.th[t].key].cost = @ + met.th[t].cost,
                         !.th[t].pc = IF met.th[t].success THEN "l58"
                                      ELSE "l57"]
    /\ UNCHANGED <<engine, dg, ms, rl, nt, rk, rg, mg, rt, ri, pg, wf, sm>>

\* ["errors"] += 1: the load
record_l57(t) ==
    /\ met.th[t].pc = "l57"
    /\ met' = [met EXCEPT !.th[t].read = met.llm_calls[met.th[t].key].errors,
                         !.th[t].pc = "l57_store"]
    /\ UNCHANGED <<engine, dg, ms, rl, nt, rk, rg, mg, rt, ri, pg, wf, sm>>

\* ["errors"] += 1: the store
record_l57_store(t) ==
    /\ met.th[t].pc = "l57_store"
    /\ met' = [met EXCEPT !.llm_calls[met.th[t].key].errors = met.th[t].read + 1,
                         !.th[t].pc = "l58"]
    /\ UNCHANGED <<engine, dg, ms, rl, nt, rk, rg, mg, rt, ri, pg, wf, sm>>

\* the with block ends: the lock is released and the call returns
record_l58(t) ==
    /\ met.th[t].pc = "l58"
    /\ met' = [met EXCEPT !.lock = Unlocked, !.th[t] = IdleRecorder]
    /\ UNCHANGED <<engine, dg, ms, rl, nt, rk, rg, mg, rt, ri, pg, wf, sm>>

\* ------------------------------------------- MetricsCollector.get_summary
\* the four sums over llm_calls.values(), in the order get_summary makes
\* them
SummedFields == <<"count", "tokens", "cost", "errors">>

NoTotals == [count |-> 0, tokens |-> 0, cost |-> 0, errors |-> 0]

\* a thread in get_summary: the sum it is making, the position of its
\* iterator and the size the dict had when the iterator was made, the
\* totals summed so far, and the by_provider copy it returns
IdleSummary ==
    [pc |-> "idle", summing |-> 1, i |-> 0, used |-> 0, totals |-> NoTotals,
     by_provider |-> [k \in Keys |-> NoCalls], provider_keys |-> {},
     exc |-> ""]

\* get_summary is called: the iterator of the first sum is made.  The
\* method takes no lock.
summary_l92 ==
    /\ sm.pc = "idle"
    /\ sm' = [IdleSummary EXCEPT !.pc = "sum", !.used = Len(met.keys)]
    /\ UNCHANGED <<engine, dg, ms, rl, nt, rk, rg, met, mg, rt, ri, pg, wf>>

\* one next() of the iterator over llm_calls.values(): RuntimeError when
\* the dict has changed size since the iterator was made, the next value
\* added to the sum, or the end of this sum and the start of the next
summary_next ==
    /\ sm.pc = "sum"
    /\ IF Len(met.keys) # sm.used
       THEN sm' = [sm EXCEPT !.pc = "raised", !.exc = "RuntimeError"]
       ELSE IF sm.i < sm.used
       THEN sm' = [sm EXCEPT
                      !.i = @ + 1,
                      !.totals[SummedFields[sm.summing]] =
                          @ + met.llm_calls[met.keys[sm.i + 1]]
                                           [SummedFields[sm.summing]]]
       ELSE IF sm.summing < Len(SummedFields)
       THEN sm' = [sm EXCEPT !.summing = @ + 1, !.i = 0,
                             !.used = Len(met.keys)]
       ELSE sm' = [sm EXCEPT !.pc = "l114"]
    /\ UNCHANGED <<engine, dg, ms, rl, nt, rk, rg, met, mg, rt, ri, pg, wf>>

\* "by_provider": dict(self.llm_calls), and the return
summary_l114 ==
    /\ sm.pc = "l114"
    /\ sm' = [sm EXCEPT
                 !.pc = "returned",
                 !.provider_keys = {met.keys[i] : i \in 1..Len(met.keys)},
                 !.by_provider = met.llm_calls]
    /\ UNCHANGED <<engine, dg, ms, rl, nt, rk, rg, met, mg, rt, ri, pg, wf>>

\* reset: with self._lock, llm_calls.clear()
metrics_reset ==
    /\ met.lock = Unlocked
    /\ Len(met.keys) > 0
    /\ met' = [met EXCEPT !.llm_calls = [k \in Keys |-> NoCalls],
                          !.keys = <<>>]
    /\ UNCHANGED <<engine, dg, ms, rl, nt, rk, rg, mg, rt, ri, pg, wf, sm>>

\* -------------------------------------------------------- LLMManager.chat
\* the fields of the dataclass LLMResponse
LLMResponseFields ==
    {"content", "model", "provider", "tokens_used", "cost", "finish_reason",
     "raw_response"}

\* the attributes of the response that chat reads to record a call that
\* has returned
RecordedAttributes == {"input_tokens", "output_tokens", "cost"}

NoResponse == [tokens_used |-> 0, cost |-> 0]

\* a chat call: the key provider/model of the instance, whether
\* backend.monitoring can be imported, what llm.chat did (its response or
\* the error it raised), what became of the recording, what chat did, and
\* llm_calls as the call found it
IdleManagerChat ==
    [pc |-> "idle", key |-> None, imports |-> TRUE, calls |-> 0,
     llm |-> None, response |-> NoResponse, error |-> None,
     recording |-> None, outcome |-> None, returned |-> NoResponse,
     raised |-> None, llm_calls0 |-> [k \in Keys |-> NoCalls]]

\* what chat does after the call if a failed recording were raised on
\* to the caller
except_raise(after_call, recording_error) ==
    [outcome |-> "raised", raised |-> recording_error]

\* what chat does after the call when the recording has failed: except
\* Exception: pass, and on as if nothing had happened
except_pass(after_call, recording_error) == after_call

\* what chat does after the call, given what became of the recording
after_recording(after_call, recording) ==
    IF recording \in {"recorded", None} THEN after_call
    ELSE except_pass(after_call, recording)

\* chat is called; get_llm finds the instance or raises ValueError
manager_chat_l106 ==
    /\ mg.pc \in {"idle", "done"}
    /\ mg.calls < MaxChats
    /\ \E found \in BOOLEAN, key \in Keys, imports \in BOOLEAN :
          LET call == [IdleManagerChat EXCEPT !.calls = mg.calls + 1,
                                              !.llm_calls0 = met.llm_calls]
          IN  IF ~found
              THEN mg' = [call EXCEPT !.pc = "done",
                                      !.outcome = "raised",
                                      !.raised = "ValueError"]
              ELSE mg' = [call EXCEPT !.pc = "l114", !.key = key,
                                      !.imports = imports]
    /\ UNCHANGED <<engine, dg, ms, rl, nt, rk, rg, met, rt, ri, pg, wf, sm>>

\* response = llm.chat(...): it returns a response or raises
manager_chat_l114 ==
    /\ mg.pc = "l114"
    /\ \/ \E tokens \in Tokens, cost \in Costs :
             mg' = [mg EXCEPT !.pc = "l125", !.llm = "returned",
                              !.response = [tokens_used |-> tokens,
                                            cost |-> cost]]
       \/ mg' = [mg EXCEPT !.pc = "l141", !.llm = "raised",
                           !.error = "ProviderError"]
    /\ UNCHANGED <<engine, dg, ms, rl, nt, rk, rg, met, rt, ri, pg, wf, sm>>

\* the call has returned: import metrics and record it with the
\* response's input_tokens, output_tokens and cost; whatever this raises
\* is passed over, and the response is returned
manager_chat_l125 ==
    /\ mg.pc = "l125"
    /\ LET recording ==
              IF ~mg.imports THEN "ImportError"
              ELSE IF ~(RecordedAttributes \subseteq LLMResponseFields)
              THEN "AttributeError"
              ELSE "recorded"
           after == after_recording([outcome |-> "returned", raised |-> None],
                                    recording)
       IN  /\ mg' = [mg EXCEPT !.pc = "done",
                               !.recording = recording,
                               !.outcome = after.outcome,
                               !.raised = after.raised,
                               !.returned = IF after.outcome = "returned"
                                            THEN mg.response ELSE NoResponse]
           /\ met' = IF recording = "recorded"
                     THEN [met EXCEPT !.llm_calls =
                              record_llm_call(met.llm_calls, mg.key,
                                              mg.response.tokens_used,
                                              mg.response.cost, TRUE),
                                      !.keys = inserted(@, mg.key)]
                     ELSE met
    /\ UNCHANGED <<engine, dg, ms, rl, nt, rk, rg, rt, ri, pg, wf, sm>>

\* the call has raised: import metrics and record the failure; whatever
\* this raises is passed over, and the error of the call is raised again
manager_chat_l141 ==
    /\ mg.pc = "l141"
    /\ LET recording == IF ~mg.imports THEN "ImportError" ELSE "recorded"
           after == after_recording([outcome |-> "raised",
                                     raised |-> mg.error], recording)
       IN  /\ mg' = [mg EXCEPT !.pc = "done",
                               !.recording = recording,
                               !.outcome = after.outcome,
                               !.raised = after.raised]
           /\ met' = IF recording = "recorded"
                     THEN [met EXCEPT !.llm_calls =
                              record_llm_call(met.llm_calls, mg.key, 0, 0,
                                              FALSE),
                                      !.keys = inserted(@, mg.key)]
                     ELSE met
    /\ UNCHANGED <<engine, dg, ms, rl, nt, rk, rg, rt, ri, pg, wf, sm>>

\* ---------------------------------------------------------- llm_config
\* the environment variables llm_config reads; a variable is in the
\* environment when os.getenv gives a non-empty string for it
EnvKeys == {"DEEPSEEK_API_KEY", "QWEN_API_KEY", "KIMI_API_KEY",
            "OPENAI_API_KEY"}

\* the task categories of task_llm_mapping, and one that is not in it
TaskCategories == {"analysis", "generation", "fast", "code", "long_context",
                   "other"}

\* register_llm on a registry kept as the set of its names and its default
registered_as(reg, name, is_default) ==
    [llms |-> reg.llms \cup {name},
     default |-> IF is_default \/ falsy(reg.default) THEN name
                 ELSE reg.default]

\* the registry after init_llms_from_env: deepseek (as default), qwen and
\* kimi are registered, in this order, each when its key is set
init_llms(env) ==
    LET r0 == [llms |-> {}, default |-> None]
        r1 == IF "DEEPSEEK_API_KEY" \in env
              THEN registered_as(r0, "deepseek", TRUE) ELSE r0
        r2 == IF "QWEN_API_KEY" \in env
              THEN registered_as(r1, "qwen", FALSE) ELSE r1
    IN  IF "KIMI_API_KEY" \in env
        THEN registered_as(r2, "kimi", FALSE) ELSE r2

\* default_model of get_llm_for_task
default_model(env) ==
    IF "DEEPSEEK_API_KEY" \in env THEN "deepseek"
    ELSE IF "QWEN_API_KEY" \in env THEN "qwen"
    ELSE IF "KIMI_API_KEY" \in env THEN "kimi"
    ELSE None

\* task_llm_mapping.get(task, default_model)
task_llm_mapping(env, task) ==
    IF task = "code"
    THEN IF "DEEPSEEK_API_KEY" \in env THEN "deepseek"
         ELSE default_model(env)
    ELSE IF task = "long_context"
    THEN IF "KIMI_API_KEY" \in env THEN "kimi" ELSE default_model(env)
    ELSE default_model(env)

IdleRouting ==
    [pc |-> "start", env |-> {}, llms |-> {}, default |-> None,
     task |-> None, outcome |-> None, returned |-> None]

\* the process starts: init_llms_from_env registers from the environment
init_llms_from_env ==
    /\ rt.pc = "start"
    /\ \E env \in SUBSET EnvKeys :
          rt' = [IdleRouting EXCEPT !.pc = "ready", !.env = env,
                                    !.llms = init_llms(env).llms,
                                    !.default = init_llms(env).default]
    /\ UNCHANGED <<engine, dg, ms, rl, nt, rk, rg, met, mg, ri, pg, wf, sm>>

\* get_llm_for_task
get_llm_for_task ==
    /\ rt.pc = "ready"
    /\ \E task \in TaskCategories :
          LET llm_name == task_llm_mapping(rt.env, task)
              call == [rt EXCEPT !.task = task]
          IN  IF default_model(rt.env) = None
              THEN IF "OPENAI_API_KEY" \in rt.env
                   THEN rt' = [call EXCEPT !.outcome = "returned",
                                           !.returned = "openai-smart"]
                   ELSE rt' = [call EXCEPT !.outcome = "ValueError",
                                           !.returned = None]
              ELSE IF llm_name \notin rt.llms
              THEN rt' = [call EXCEPT !.outcome = "returned",
                                      !.returned = rt.default]
              ELSE rt' = [call EXCEPT !.outcome = "returned",
                                      !.returned = llm_name]
    /\ UNCHANGED <<engine, dg, ms, rl, nt, rk, rg, met, mg, ri, pg, wf, sm>>

\* ------------------------------------------------------- ResearchIntent
\* an Optional[int] year: None, or an integer
NoYear == [set |-> FALSE, value |-> 0]

Years == {NoYear} \cup {[set |-> TRUE, value |-> y] : y \in {-1, 0, 2020, 2022, 2024}}

\* the truth value of a year: None and 0 are false
truthy(year) == year.set /\ year.value # 0

\* the two places that build a ResearchIntent
Builders == {"create_research_intent", "literature_discovery_task"}

IdleIntent ==
    [pc |-> "idle", via |-> None, keywords_blank |-> FALSE,
     enums_valid |-> TRUE, year_start |-> NoYear, year_end |-> NoYear,
     outcome |-> None]

\* create_research_intent is called, or the discovery task reaches the
\* construction of the intent from the project row the API stored
intent_call ==
    /\ ri.pc = "idle"
    /\ \E via \in Builders, year_start \in Years, year_end \in Years,
          keywords_blank \in BOOLEAN, enums_valid \in BOOLEAN :
          \* ResearchIntentCreate has checked the stored project's
          \* keywords and enums
          /\ via = "literature_discovery_task"
                => ~keywords_blank /\ enums_valid
          /\ ri' = [IdleIntent EXCEPT !.pc = "called", !.via = via,
                                      !.keywords_blank = keywords_blank,
                                      !.enums_valid = enums_valid,
                                      !.year_start = year_start,
                                      !.year_end = year_end]
    /\ UNCHANGED <<engine, dg, ms, rl, nt, rk, rg, met, mg, rt, pg, wf, sm>>

\* create_research_intent: keywords, enums, year range, then the dataclass
create_research_intent ==
    /\ ri.pc = "called"
    /\ ri.via = "create_research_intent"
    /\ ri' = [ri EXCEPT
                 !.pc = "done",
                 !.outcome =
                     IF ri.keywords_blank THEN "ValueError"
                     ELSE IF ~ri.enums_valid THEN "ValueError"
                     ELSE IF /\ truthy(ri.year_start)
                             /\ truthy(ri.year_end)
                             /\ ri.year_start.value > ri.year_end.value
                     THEN "ValueError"
                     ELSE "intent"]
    /\ UNCHANGED <<engine, dg, ms, rl, nt, rk, rg, met, mg, rt, pg, wf, sm>>

\* the discovery task: ResearchIntent(keywords=project.keywords,
\* year_start=project.year_start, year_end=project.year_end, ...); the
\* dataclass has no __post_init__ and checks nothing
literature_build_intent ==
    /\ ri.pc = "called"
    /\ ri.via = "literature_discovery_task"
    /\ ri' = [ri EXCEPT !.pc = "done", !.outcome = "intent"]
    /\ UNCHANGED <<engine, dg, ms, rl, nt, rk, rg, met, mg, rt, pg, wf, sm>>

\* ------------------------------------------------------ ProgressTracker
\* the values a caller can hand to set_progress
PassedProgress == {-100, -1, 0, 1, 50, 99, 100, 101, 250}

\* passed is the progress last handed to update_task_status; exc is the
\* error the last tracker call raised
IdleProgress ==
    [pc |-> "idle", row |-> NewRec, total_steps |-> 0, current_step |-> 0,
     passed |-> 0, exc |-> ""]

\* ProgressTracker(task, task_id, total_steps)
tracker_init ==
    /\ pg.pc = "idle"
    /\ \E total_steps \in 0..MaxSteps :
          pg' = [IdleProgress EXCEPT !.pc = "tracking",
                                     !.total_steps = total_steps]
    /\ UNCHANGED <<engine, dg, ms, rl, nt, rk, rg, met, mg, rt, ri, wf, sm>>

\* the progress int((step / total_steps) * 100) stored through
\* update_task_status, or ZeroDivisionError when total_steps is 0
tracker_store(step) ==
    IF pg.total_steps = 0
    THEN pg' = [pg EXCEPT !.current_step = step,
                          !.exc = "ZeroDivisionError"]
    ELSE pg' = [pg EXCEPT
                   !.current_step = step,
                   !.exc = "",
                   !.passed = Pct(step, pg.total_steps),
                   !.row = set_progress(pg.row, Pct(step, pg.total_steps))]

\* ProgressTracker.update: nothing keeps current_step below total_steps
tracker_update ==
    /\ pg.pc = "tracking"
    /\ pg.current_step < MaxSteps + 2
    /\ tracker_store(pg.current_step + 1)
    /\ UNCHANGED <<engine, dg, ms, rl, nt, rk, rg, met, mg, rt, ri, wf, sm>>

\* ProgressTracker.set_step
tracker_set_step ==
    /\ pg.pc = "tracking"
    /\ \E step \in 0..(MaxSteps + 2) : tracker_store(step)
    /\ UNCHANGED <<engine, dg, ms, rl, nt, rk, rg, met, mg, rt, ri, wf, sm>>

\* ProgressTracker.set_progress
tracker_set_progress ==
    /\ pg.pc = "tracking"
    /\ \E progress \in PassedProgress :
          pg' = [pg EXCEPT !.exc = "",
                           !.passed = progress,
                           !.row = set_progress(pg.row, progress)]
    /\ UNCHANGED <<engine, dg, ms, rl, nt, rk, rg, met, mg, rt, ri, wf, sm>>

\* the task ends: on_success or on_failure
tracker_end ==
    /\ pg.pc = "tracking"
    /\ \/ pg' = [pg EXCEPT !.pc = "ended", !.passed = 100,
                           !.row = on_success_update(pg.row, <<"result">>)]
       \/ pg' = [pg EXCEPT !.pc = "ended", !.passed = 0,
                           !.row = on_failure_update(pg.row, "Exception")]
    /\ UNCHANGED <<engine, dg, ms, rl, nt, rk, rg, met, mg, rt, ri, wf, sm>>

\* ------------------------------------------------------ ResearchWorkflow
\* WorkflowState().  A field holds 0 when it is None or empty and 1 when
\* it holds a value.
NewWorkflowState ==
    [research_intent |-> 0, papers_metadata |-> 0, papers_analysis |-> 0,
     landscape |-> 0, ideas |-> 0, selected_idea |-> 0, method_design |-> 0,
     experiment_plan |-> 0, paper_draft |-> 0, current_step |-> "intent"]

\* the stage methods of ResearchWorkflow
StageMethods ==
    {"discover_literature", "analyze_literature", "analyze_landscape",
     "generate_ideas", "design_method", "plan_experiments", "draft_paper"}

\* the fields a stage method tests before it does anything
requires(method) ==
    CASE method = "discover_literature" -> {"research_intent"}
      [] method = "analyze_literature" -> {"papers_metadata"}
      [] method = "analyze_landscape" -> {"papers_analysis"}
      [] method = "generate_ideas" -> {"landscape"}
      [] method = "design_method" -> {"selected_idea"}
      [] method = "plan_experiments" -> {"method_design"}
      [] method = "draft_paper" -> {"selected_idea", "method_design",
                                    "experiment_plan", "landscape"}

\* the field a stage method assigns its result to
assigns(method) ==
    CASE method = "discover_literature" -> "papers_metadata"
      [] method = "analyze_literature" -> "papers_analysis"
      [] method = "analyze_landscape" -> "landscape"
      [] method = "generate_ideas" -> "ideas"
      [] method = "design_method" -> "method_design"
      [] method = "plan_experiments" -> "experiment_plan"
      [] method = "draft_paper" -> "paper_draft"

\* the current_step a stage method assigns
step_of(method) ==
    CASE method = "discover_literature" -> "discovery"
      [] method = "analyze_literature" -> "analysis"
      [] method = "analyze_landscape" -> "landscape"
      [] method = "generate_ideas" -> "ideas"
      [] method = "design_method" -> "method"
      [] method = "plan_experiments" -> "experiment"
      [] method = "draft_paper" -> "draft"

\* the stage functions that return a list or a dict, which can be empty
ReturnsCollection ==
    {"discover_literature", "analyze_literature", "generate_ideas"}

\* method and exc are the last call and the error it raised, assigned the
\* fields of self.state it assigned before it returned or raised
IdleWorkflow ==
    [state |-> NewWorkflowState, method |-> None, exc |-> "",
     assigned |-> {}]

\* what a call leaves in wf
called(method, state, exc, assigned) ==
    wf' = [state |-> state, method |-> method, exc |-> exc,
           assigned |-> assigned]

\* set_research_intent: create_research_intent or the validation raises,
\* or the intent is stored
set_research_intent ==
    /\ \/ called("set_research_intent", wf.state, "ValueError", {})
       \/ called("set_research_intent",
                 [wf.state EXCEPT
                     !.research_intent = 1,
                     !.current_step = "intent"], "",
                 {"research_intent", "current_step"})
    /\ UNCHANGED <<engine, dg, ms, rl, nt, rk, rg, met, mg, rt, ri, pg, sm>>

\* select_idea
select_idea ==
    /\ \/ /\ wf.state.ideas = 0
          /\ called("select_idea", wf.state, "ValueError", {})
       \/ /\ wf.state.ideas # 0
          /\ \/ called("select_idea", wf.state, "ValueError", {})
             \/ called("select_idea",
                       [wf.state EXCEPT !.selected_idea = wf.state.ideas],
                       "", {"selected_idea"})
    /\ UNCHANGED <<engine, dg, ms, rl, nt, rk, rg, met, mg, rt, ri, pg, sm>>

\* a stage method: the test of what it requires, the stage function, the
\* two assignments to self.state, then save_json of the result
stage_method(method) ==
    /\ IF \E f \in requires(method) : wf.state[f] = 0
       THEN called(method, wf.state, "ValueError", {})
       ELSE \/ called(method, wf.state, "Exception", {})
            \/ \E empty \in BOOLEAN :
                  /\ empty => method \in ReturnsCollection
                  /\ LET state ==
                            [wf.state EXCEPT
                                ![assigns(method)] = IF empty THEN 0 ELSE 1,
                                !.current_step = step_of(method)]
                         assigned == {assigns(method), "current_step"}
                     IN  \/ called(method, state, "", assigned)
                         \/ called(method, state, "OSError", assigned)
    /\ UNCHANGED <<engine, dg, ms, rl, nt, rk, rg, met, mg, rt, ri, pg, sm>>

\* --------------------------------------------------------- specifications
Init ==
    /\ proj = NewProject
    /\ rec = NoRec
    /\ ep = "idle"
    /\ wk = IdleWorker
    /\ cn = IdleCancel
    /\ runs = 0
    /\ chat = IdleChat
    /\ dg = IdleDraft
    /\ ms = IdleSearch
    /\ rl = IdleRelevance
    /\ nt = IdleNormalize
    /\ rk = IdleRank
    /\ rg = IdleRegistry
    /\ met = IdleMetrics
    /\ mg = IdleManagerChat
    /\ rt = IdleRouting
    /\ ri = IdleIntent
    /\ pg = IdleProgress
    /\ wf = IdleWorkflow
    /\ sm = IdleSummary

Next ==
    \/ start_stage
    \/ create_task_record
    \/ send_task
    \/ cancel_task_check
    \/ cancel_task_commit
    \/ literature_discovery_task
    \/ paper_analysis_task
    \/ landscape_analysis_task
    \/ idea_generation_task
    \/ method_design_task
    \/ paper_draft_task
    \/ on_success
    \/ on_failure

Spec == Init /\ [][Next]_vars

\* the provider retry loop alone
NextChat == chat_call \/ chat_attempt \/ chat_raise

SpecChat == Init /\ [][NextChat]_vars

\* the chat call as a running thread: an iteration of the loop, its sleep
\* included, and the final raise are eventually carried out
SpecChatFair ==
    Init /\ [][NextChat]_vars /\ WF_vars(chat_attempt) /\ WF_vars(chat_raise)

\* draft generation alone
NextDraft == draft_call \/ draft_section \/ draft_build

SpecDraft == Init /\ [][NextDraft]_vars

\* merge_and_deduplicate alone, on any mapping
NextFusion == merge_and_deduplicate \/ merge_step

SpecFusion == Init /\ [][NextFusion]_vars

\* the search and the fusion of its results, as literature_discovery_task
\* calls them
NextSearch == search_multi_source \/ merge_results \/ merge_step

SpecSearch == Init /\ [][NextSearch]_vars

\* relevance scoring alone
NextRelevance == relevance_call \/ relevance_paper \/ relevance_return

SpecRelevance == Init /\ [][NextRelevance]_vars

\* title normalization alone
NextNormalize == normalize_call \/ normalize_once \/ normalize_twice

SpecNormalize == Init /\ [][NextNormalize]_vars

\* rank_ideas alone
NextRank == rank_call \/ rank_ideas

SpecRank == Init /\ [][NextRank]_vars

\* the manager, one call after the other
NextRegistry == register_llm \/ set_default_llm \/ get_llm

SpecRegistry == Init /\ [][NextRegistry]_vars

\* register_llm on several threads
NextRegister ==
    \E t \in Threads :
        \/ register_l57(t)
        \/ register_l58(t)
        \/ register_l60(t)
        \/ register_l61(t)

SpecRegister == Init /\ [][NextRegister]_vars

\* record_llm_call on several threads
NextMetrics ==
    \E t \in Threads :
        \/ record_l41(t)
        \/ record_l52(t)
        \/ record_l53(t)
        \/ record_l53_store(t)
        \/ record_l54(t)
        \/ record_l57(t)
        \/ record_l57_store(t)
        \/ record_l58(t)

SpecMetrics == Init /\ [][NextMetrics]_vars

\* LLMManager.chat, one call after the other
NextManagerChat ==
    \/ manager_chat_l106
    \/ manager_chat_l114
    \/ manager_chat_l125
    \/ manager_chat_l141

SpecManagerChat == Init /\ [][NextManagerChat]_vars

\* routing of task categories after the registration from the environment
NextRouting == init_llms_from_env \/ get_llm_for_task

SpecRouting == Init /\ [][NextRouting]_vars

\* the construction of a ResearchIntent alone
NextIntent == intent_call \/ create_research_intent \/ literature_build_intent

SpecIntent == Init /\ [][NextIntent]_vars

\* a progress tracker handed any value
NextProgress ==
    \/ tracker_init
    \/ tracker_update
    \/ tracker_set_step
    \/ tracker_set_progress
    \/ tracker_end

SpecProgress == Init /\ [][NextProgress]_vars

\* the command-line workflow
NextWorkflow ==
    \/ set_research_intent
    \/ select_idea
    \/ \E method \in StageMethods : stage_method(method)

SpecWorkflow == Init /\ [][NextWorkflow]_vars

\* get_summary on one thread while others record and reset
NextSummary ==
    \/ NextMetrics
    \/ metrics_reset
    \/ summary_l92
    \/ summary_next
    \/ summary_l114

SpecSummary == Init /\ [][NextSummary]_vars

\* the analysis stage alone, on a project whose discovery runs have saved
\* between one and MaxStored papers: the task is dispatched and its row
\* created, the worker is about to run the body
InitAnalysis ==
    /\ \E stored \in 1..MaxStored :
          /\ proj = [NewProject EXCEPT !.papers = stored,
                                       !.current_step = "discovery"]
          /\ wk = [IdleWorker EXCEPT !.pc = EntryPc("analysis"),
                                     !.stage = "analysis",
                                     !.via = "endpoint",
                                     !.proj0 = [NewProject EXCEPT
                                                  !.papers = stored,
                                                  !.current_step = "discovery"]]
    /\ rec = NewRec
    /\ ep = "created"
    /\ cn = IdleCancel
    /\ runs = 2
    /\ chat = IdleChat
    /\ dg = IdleDraft
    /\ ms = IdleSearch
    /\ rl = IdleRelevance
    /\ nt = IdleNormalize
    /\ rk = IdleRank
    /\ rg = IdleRegistry
    /\ met = IdleMetrics
    /\ mg = IdleManagerChat
    /\ rt = IdleRouting
    /\ ri = IdleIntent
    /\ pg = IdleProgress
    /\ wf = IdleWorkflow
    /\ sm = IdleSummary

NextAnalysis == paper_analysis_task \/ on_success

SpecAnalysis == InitAnalysis /\ [][NextAnalysis]_vars

\* ------------------------------------------------------------- properties
Terminal == {"completed", "failed", "cancelled"}

\* C1: while a task's row is running, the progress the worker stores in it
\* never decreases from one write to the next.
C1_ProgressNeverDecreases ==
    [][(rec.exists /\ rec.status = "running" /\ rec'.status = "running"
          /\ runs' = runs)
        => rec'.progress >= rec.progress]_vars

\* C2: a row whose status is completed has progress 100 and holds the
\* summary the task body returned.
C2_CompletedIsFullWithSummary ==
    (rec.exists /\ rec.status = "completed")
        => (rec.progress = 100 /\ wk.retval # <<>> /\ rec.summary = wk.retval)

\* a landscape task completed: its last tracker step left the row at 80
C2_Witness ==
    rec.exists /\ rec.status = "completed" /\ wk.stage = "landscape"

\* C3: when the task body has raised, the failure callback leaves the row
\* failed, with the error message, and with the progress it had before.
C3_FailureKeepsProgress ==
    [][(wk.pc = "raised" /\ wk'.pc = "done" /\ rec.exists)
        => (rec'.status = "failed" /\ rec'.error # ""
              /\ rec'.progress = rec.progress)]_vars

\* C4: once a row is completed, failed or cancelled its status never
\* changes again, whatever the worker and the cancel endpoint do.
C4_TerminalStatusIsFinal ==
    [][(rec.exists /\ rec.status \in Terminal /\ runs' = runs)
        => rec'.status = rec.status]_vars

\* C5: a cancel request that finds the row completed or failed is rejected
\* and leaves the row as it is; a cancel request that found the row pending
\* succeeds and leaves the status cancelled, progress and result untouched.
C5_CancelRejectedOrCancels ==
    [][/\ (cn.pc = "idle" /\ cn' # cn /\ runs' = runs /\ rec.exists
             /\ rec.status \in {"completed", "failed"})
          => (cn'.pc = "idle" /\ cn'.outcome = "rejected" /\ rec' = rec)
       /\ (cn.pc = "commit" /\ cn.seen = "pending" /\ cn' # cn
             /\ runs' = runs)
          => (cn'.pc = "idle" /\ cn'.outcome = "cancelled"
                /\ rec' = [rec EXCEPT !.status = "cancelled"])]_vars

\* a cancel request was rejected on a failed row
C5_Witness ==
    cn.outcome = "rejected" /\ cn.seen = "failed" /\ rec.status = "failed"

\* C6 as stated: a cancel request succeeds exactly when the status it read
\* is pending or running; completed, failed and cancelled are rejected.
C6_CancelOnlyPendingOrRunning ==
    (cn.pc = "idle" /\ cn.outcome \in {"cancelled", "rejected"})
        => (cn.outcome = "cancelled" <=> cn.seen \in {"pending", "running"})

\* C6 amended: a cancel request is rejected exactly when the status it read
\* is completed or failed; on pending, running and cancelled it succeeds.
C6_CancelRejectedIffFinished ==
    (cn.pc = "idle" /\ cn.outcome \in {"cancelled", "rejected"})
        => /\ cn.outcome = "rejected" <=> cn.seen \in {"completed", "failed"}
           /\ cn.outcome = "cancelled"
                <=> cn.seen \in {"pending", "running", "cancelled"}

\* a cancel request succeeded on a row that was already cancelled
C6_Witness ==
    cn.pc = "idle" /\ cn.outcome = "cancelled" /\ cn.seen = "cancelled"

\* C7: once the endpoint has returned and the worker has finished a task
\* the endpoint submitted, the row is completed if the body returned and
\* failed with a message if it raised.
C7_FinishedTaskIsRecorded ==
    (wk.via = "endpoint" /\ wk.pc = "done" /\ ep = "created")
        => IF wk.exc = ""
           THEN rec.status = "completed"
           ELSE rec.status = "failed" /\ rec.error # ""

\* C8: no stage's rows exist without the rows of the stage before it, and
\* a task body that found the rows it needs absent has raised, with the
\* project's rows and current_step as they were when it was dispatched.
C8_StagesNeedPredecessor ==
    /\ proj.analyses > 0 => proj.papers > 0
    /\ proj.landscape > 0 => proj.analyses > 0
    /\ proj.ideas > 0 => proj.landscape > 0
    /\ proj.methods > 0 => proj.ideas > 0
    /\ proj.drafts > 0 => proj.methods > 0
    /\ wk.absent => (wk.pc \in {"raised", "done"} /\ wk.exc # ""
                       /\ proj = wk.proj0)

\* an idea generation task found no landscape and has ended
C8_Witness ==
    wk.absent /\ wk.stage = "ideas" /\ wk.pc = "done"

\* C9: a task body that found the rows it needs absent raises ValueError
\* and has made no provider call.
C9_AbsentInputFailsBeforeLLM ==
    wk.absent => (wk.llm = 0 /\ wk.exc = "ValueError")

\* a landscape task found no paper analyses and has ended
C9_Witness ==
    wk.absent /\ wk.stage = "landscape" /\ wk.pc = "done" /\ wk.llm = 0

\* C10: a finished chat call returns a response whenever the provider
\* would have answered one of the first max_retries + 1 requests.
C10_SucceedsWithinRetries ==
    (chat.pc = "done"
       /\ \E a \in 1..(chat.max_retries + 1) : chat.plan[a] = "ok")
        => chat.result[1] = "response"

\* C11: a chat call whose estimated cost is over the configured
\* max_cost_per_request ends with an error and has sent no request.
C11_OverBudgetIsRefused ==
    (chat.pc # "idle"
       /\ ~_validate_budget(chat.max_cost_per_request, chat.estimated_cost))
        => (chat.calls = 0
              /\ (chat.pc = "done" => chat.result[1] = "error"))

\* rows of a stage's own entity in the project
StageRows(p, stage) ==
    CASE stage = "landscape" -> p.landscape
      [] stage = "ideas" -> p.ideas
      [] stage = "method" -> p.methods
      [] stage = "draft" -> p.drafts

\* C12: when the body of a landscape, idea, method or draft task has
\* raised, the project holds exactly the rows of that stage it held when
\* the task was dispatched.
C12_FailedRunPersistsNothing ==
    (wk.stage \in {"landscape", "ideas", "method", "draft"}
       /\ wk.pc \in {"raised", "done"} /\ wk.exc # "")
        => StageRows(proj, wk.stage) = StageRows(wk.proj0, wk.stage)

\* an idea task raised on its second idea, the first one already added to
\* the session
C12_Witness ==
    wk.stage = "ideas" /\ wk.pc = "done" /\ wk.exc = "TypeError"
        /\ wk.i >= 1 /\ wk.llm = 1

\* C13: once analyze_paper has raised for some paper of a paper analysis
\* task, the body still goes through every selected paper without raising,
\* each paper whose analysis did not raise has its row committed, and the
\* body returns the number of those papers.
C13_PaperFailureIsConfined ==
    (wk.stage = "analysis" /\ wk.failed > 0)
        => /\ wk.pc \in {"a81", "a85", "a115", "a116", "returned", "done"}
           /\ wk.exc = ""
           /\ wk.analyzed = wk.i - wk.failed
           /\ proj.analyses = wk.proj0.analyses + wk.analyzed
           /\ wk.pc \in {"returned", "done"}
                => /\ wk.i = wk.n
                   /\ wk.retval = <<"analysis", wk.n - wk.failed>>

\* an analysis task ended with one paper failed and another analyzed
C13_Witness ==
    wk.stage = "analysis" /\ wk.pc = "done" /\ wk.failed >= 1
        /\ wk.analyzed >= 1 /\ wk.exc = ""

\* C14: a finished draft generation in which the provider call of exactly
\* one section raised has returned a draft that holds the placeholder for
\* that section and generated content for every other section.
C14_SectionFailureYieldsPlaceholder ==
    (dg.pc = "done" /\ Cardinality(dg.failed) = 1)
        => /\ dg.result = "draft"
           /\ Len(dg.sections) = Len(section_order(dg.gen))
           /\ \A i \in 1..Len(dg.sections) :
                 dg.sections[i].content
                   = IF dg.sections[i].section_name \in dg.failed
                     THEN "placeholder" ELSE "generated"

\* C15: a landscape task whose provider answer was not parsable JSON has
\* not raised: analyze_landscape returned a placeholder landscape.
C15_BadJsonYieldsPlaceholder ==
    (wk.stage = "landscape" /\ wk.answer = "bad_json")
        => (wk.pc # "raised" /\ wk.exc = "")

\* C16: each PaperAnalysisDB row belongs to one of the project's papers, so
\* with at most one row per paper the project never holds more analysis
\* rows than papers, however many paper analysis tasks have run.
C16_OneAnalysisPerPaper ==
    proj.analyses <= proj.papers

\* C17: every PaperSection a draft generation has built is tagged
\* literature, hypothesis or original; the related-work section is tagged
\* literature and the experiments section hypothesis.
C17_SectionsCarrySourceTag ==
    \A i \in 1..Len(dg.sections) :
        LET section == dg.sections[i]
        IN /\ section.source_type \in {"literature", "hypothesis", "original"}
           /\ section.section_name = "related_work"
                => section.source_type = "literature"
           /\ section.section_name \in {"experiments", "experiment"}
                => section.source_type = "hypothesis"

\* positions of the records of a list that carry arXiv id x
WithId(papers, x) == {k \in 1..Len(papers) : papers[k].arxiv_id = x}

\* positions of the records of a list whose normalized title is t
WithTitle(papers, t) ==
    {k \in 1..Len(papers) : normalize_title(papers[k].title) = t}

\* the highest priority among the records of a list at the positions ks
TopPriority(papers, ks) ==
    CHOOSE m \in 1..3 :
        /\ \E k \in ks : source_priority(papers[k].source) = m
        /\ \A k \in ks : source_priority(papers[k].source) <= m

\* C18: when several records of the input carry the same arXiv id, the
\* returned list holds at most one record with that id, and that record
\* comes from the highest-priority source among them.
C18_KeepsHighestPriorityPerArxivId ==
    ms.pc = "done"
        => \A x \in ArxivIds :
              Cardinality(WithId(ms.all_papers, x)) >= 2
                => /\ Cardinality(WithId(ms.unique_papers, x)) <= 1
                   /\ \A k \in WithId(ms.unique_papers, x) :
                         source_priority(ms.unique_papers[k].source)
                           = TopPriority(ms.all_papers,
                                         WithId(ms.all_papers, x))

\* C19: the returned list holds no two records with the same normalized
\* title, and each record it holds comes from the highest-priority source
\* among the input records with that normalized title.
C19_KeepsHighestPriorityPerTitle ==
    ms.pc = "done"
        => /\ \A j, k \in 1..Len(ms.unique_papers) :
                 j # k => normalize_title(ms.unique_papers[j].title)
                            # normalize_title(ms.unique_papers[k].title)
           /\ \A k \in 1..Len(ms.unique_papers) :
                 source_priority(ms.unique_papers[k].source)
                   = TopPriority(ms.all_papers,
                        WithTitle(ms.all_papers,
                            normalize_title(ms.unique_papers[k].title)))

\* C20: after a search, each requested source that has an adapter has one
\* entry in the results: the empty list when its adapter raised, the list
\* its adapter returned otherwise, whatever the other adapter did.
C20_AdapterFailureIsConfined ==
    ms.pc \in {"searched", "loop", "done"}
        => \A s \in ms.sources \cap {"arxiv", "semantic_scholar"} :
              /\ Cardinality({k \in 1..Len(ms.results) :
                                ms.results[k].source = s}) = 1
              /\ \A k \in 1..Len(ms.results) :
                    ms.results[k].source = s
                      => ms.results[k].papers
                           = IF ms.adapters[s].raised THEN <<>>
                             ELSE ms.adapters[s].papers

\* the arXiv adapter raised, Semantic Scholar returned a paper, and the
\* fusion of the results has returned it
C20_Witness ==
    /\ ms.pc = "done"
    /\ ms.sources = {"arxiv", "semantic_scholar"}
    /\ ms.adapters.arxiv.raised
    /\ Len(ms.adapters.semantic_scholar.papers) = 1
    /\ ms.unique_papers = ms.adapters.semantic_scholar.papers

\* C21: every relevance score a scoring function has assigned lies between
\* 0 and 1.
C21_ScoreWithinUnitInterval ==
    \A k \in 1..Len(rl.papers) :
        /\ rl.papers[k].relevance_score >= 0
        /\ rl.papers[k].relevance_score <= One

\* a paper with three keywords in its title, a matching type and a year
\* far in the future was scored: its unclamped score is above 1
C21_Witness ==
    /\ rl.pc = "done" /\ Len(rl.papers) >= 1
    /\ rl.raw > 10 * One
    /\ rl.papers[Len(rl.papers)].relevance_score = One
    /\ rl.fn = "score_relevance"

\* C22: the list calculate_cross_source_relevance returns holds the papers
\* of its input, each once, in descending order of score, and papers with
\* equal score in the order they had in the input.
C22_SortedDescendingStable ==
    (rl.pc = "done" /\ rl.fn = "calculate_cross_source_relevance")
        => /\ Len(rl.papers) = rl.n
           /\ {rl.papers[k].id : k \in 1..Len(rl.papers)} = 1..rl.n
           /\ \A i, j \in 1..Len(rl.papers) :
                 i < j
                   => /\ rl.papers[i].relevance_score
                          >= rl.papers[j].relevance_score
                      /\ rl.papers[i].relevance_score
                          = rl.papers[j].relevance_score
                            => rl.papers[i].id < rl.papers[j].id

\* two papers with the same score, between 0 and 1, were sorted
C22_Witness ==
    /\ rl.pc = "done" /\ rl.fn = "calculate_cross_source_relevance"
    /\ Len(rl.papers) = 2
    /\ rl.papers[1].relevance_score = rl.papers[2].relevance_score
    /\ rl.papers[1].relevance_score = 350

\* C23: normalizing a normalized title gives the same title again.
C23_NormalizeIdempotent ==
    nt.pc = "done" => nt.twice = nt.once

\* a title with an upper-case letter, a punctuation mark and a tab was
\* normalized twice: the first pass changed it, the second did not
C23_Witness ==
    /\ nt.pc = "done"
    /\ nt.title = <<"-", "\t", "A">>
    /\ nt.once = <<"a">>
    /\ nt.twice = <<"a">>

Orders ==
    {o \in [Threads -> Threads] : \A a, b \in Threads : o[a] = o[b] => a = b}

\* _llms and _default_llm after the first k threads of an order have run
\* register_llm one after the other
RECURSIVE serial(_, _)
serial(order, k) ==
    IF k = 0 THEN [llms |-> EmptyRegistry, default |-> None]
    ELSE LET s == serial(order, k - 1)
             t == rg.th[order[k]]
         IN  register_result(s.llms, s.default, t.name, t.inst, t.is_default)

\* C25: when the threads have all returned from register_llm, the
\* instances and the default are those some order of the calls, run one
\* after the other, leaves.
C25_RegisterSerializable ==
    (\A t \in Threads : rg.th[t].pc = "done")
        => \E order \in Orders :
              /\ rg.llms = serial(order, MaxThreads).llms
              /\ rg.default = serial(order, MaxThreads).default

\* C29: get_llm raises when the name it looks up (the name given, the
\* default when none is given) is not registered, and returns the instance
\* registered under that name otherwise.
C29_GetReturnsRegisteredOrRaises ==
    rg.op.kind = "get_llm"
        => /\ (rg.op.name # None /\ rg.llms[rg.op.name] = Unregistered)
                 => rg.op.outcome = "ValueError"
           /\ (rg.op.name = None /\ rg.default = None)
                 => rg.op.outcome = "ValueError"
           /\ (rg.op.name # None /\ rg.llms[rg.op.name] # Unregistered)
                 => /\ rg.op.outcome = "ok"
                    /\ rg.op.returned = rg.llms[rg.op.name]
           /\ (rg.op.name = None /\ rg.default # None)
                 => /\ rg.op.outcome = "ok"
                    /\ rg.op.returned = rg.llms[rg.default]
                    /\ rg.op.returned # Unregistered

\* get_llm without a name returned the default, the first of two
\* registered instances
C29_Witness ==
    /\ rg.op.kind = "get_llm"
    /\ rg.op.name = None
    /\ rg.op.outcome = "ok"
    /\ rg.op.returned = 1
    /\ rg.default = "fast"
    /\ rg.llms["smart"] = 2

\* C30: a registry that is not empty has a default and the default is a
\* registered name; the first registration becomes the default, a later
\* one becomes the default exactly when it is made with is_default, and
\* set_default_llm with a name that is not registered raises and leaves
\* the default as it was.
C30_OneRegisteredDefault ==
    /\ (\E n \in Names : rg.llms[n] # Unregistered)
          => registered(rg.llms, rg.default)
    /\ rg.op.kind = "register_llm"
          => rg.default =
                IF rg.op.llms0 = EmptyRegistry \/ rg.op.is_default
                THEN rg.op.name ELSE rg.op.default0
    /\ (rg.op.kind = "set_default_llm" /\ rg.op.llms0[rg.op.name] = Unregistered)
          => /\ rg.op.outcome = "ValueError"
             /\ rg.default = rg.op.default0

\* C26: when no thread is inside record_llm_call, the count stored for a
\* key is the number of invocations made for it and the errors stored are
\* the number of those made with success=False.
C26_NoIncrementLost ==
    (\A t \in Threads : met.th[t].pc = "idle")
        => \A k \in Keys :
              /\ met.llm_calls[k].count = met.invoked[k]
              /\ met.llm_calls[k].errors = met.failures[k]

\* MaxRecorded invocations for one key, one of them a failure, have
\* returned
C26_Witness ==
    /\ \A t \in Threads : met.th[t].pc = "idle"
    /\ met.invoked["openai/gpt-4"] = MaxRecorded
    /\ met.llm_calls["openai/gpt-4"].count = MaxRecorded
    /\ met.llm_calls["openai/gpt-4"].errors = 1

\* C27: whatever becomes of the recording, chat returns the response
\* llm.chat returned, or raises the error llm.chat raised.
C27_RecordingNeverChangesOutcome ==
    mg.pc = "done"
        => /\ mg.llm = "returned"
                 => mg.outcome = "returned" /\ mg.returned = mg.response
           /\ mg.llm = "raised"
                 => mg.outcome = "raised" /\ mg.raised = mg.error

\* the recording of a returned call failed and chat returned the call's
\* response, which cost something
C27_Witness ==
    /\ mg.pc = "done"
    /\ mg.llm = "returned"
    /\ mg.recording \in {"ImportError", "AttributeError"}
    /\ mg.outcome = "returned"
    /\ mg.returned.cost = 3

\* C28: a chat call that returns adds one to the count of its key and the
\* response's cost to its cost; one that raises the error of llm.chat adds
\* one to the count and one to the errors of its key.
C28_EveryCallIsRecorded ==
    (mg.pc = "done" /\ mg.llm # None)
        => /\ mg.outcome = "returned"
                 => /\ met.llm_calls[mg.key].count
                          = mg.llm_calls0[mg.key].count + 1
                    /\ met.llm_calls[mg.key].cost
                          = mg.llm_calls0[mg.key].cost + mg.returned.cost
           /\ mg.outcome = "raised"
                 => /\ met.llm_calls[mg.key].count
                          = mg.llm_calls0[mg.key].count + 1
                    /\ met.llm_calls[mg.key].errors
                          = mg.llm_calls0[mg.key].errors + 1

\* C31: a routing call raises or returns a registered name: deepseek for
\* code and kimi for long_context when that provider is configured, and
\* the registered default otherwise.
C31_RoutesToRegisteredName ==
    rt.outcome = "returned"
        => /\ rt.returned \in rt.llms
           /\ rt.returned =
                 IF rt.task = "code" /\ "DEEPSEEK_API_KEY" \in rt.env
                 THEN "deepseek"
                 ELSE IF rt.task = "long_context" /\ "KIMI_API_KEY" \in rt.env
                 THEN "kimi"
                 ELSE rt.default

\* C32: a construction with year_start and year_end both set and
\* year_start > year_end fails with a validation error, through
\* create_research_intent and in the discovery task.
C32_InvertedYearsAreRefused ==
    (/\ ri.pc = "done"
     /\ ri.year_start.set /\ ri.year_end.set
     /\ ri.year_start.value > ri.year_end.value)
        => ri.outcome = "ValueError"

\* the waits of a chat call all of whose m attempts fail: 2^k seconds
\* after the k-th failed attempt, k = 0, 1, ..., none after the last
BackoffWaits(m) == IF m <= 1 THEN <<>> ELSE [k \in 1..(m - 1) |-> 2 ^ (k - 1)]

\* C33: a chat call whose provider fails on every attempt makes
\* max_retries requests, waits 1, 2, 4, ... seconds between them and none
\* after the last, and raises an error that carries the error of the last
\* request; and the retry loop, once entered, always ends.
C33_ExhaustedRetriesRaise ==
    /\ [](( /\ chat.pc = "done"
            /\ \A a \in 1..chat.max_retries : chat.plan[a] = "error")
             => /\ chat.calls = chat.max_retries
                /\ chat.waits = BackoffWaits(chat.max_retries)
                /\ chat.result = <<"error", chat.max_retries>>)
    /\ (chat.pc = "loop") ~> (chat.pc = "done")

\* a call configured with the largest max_retries has failed on every
\* attempt and has raised
C33_Witness ==
    /\ chat.pc = "done"
    /\ chat.max_retries = MaxRetriesArg
    /\ chat.calls = MaxRetriesArg
    /\ Len(chat.waits) = MaxRetriesArg - 1
    /\ chat.result[1] = "error"

\* C34: the progress stored in a task row is an integer from 0 to 100,
\* whatever is passed to the progress tracker.
C34_ProgressWithinBounds ==
    /\ pg.row.progress \in 0..100
    /\ rec.progress \in 0..100

\* the tracker was handed a progress over 100 (a step past total_steps)
\* and the row holds 100
C34_Witness ==
    /\ pg.pc = "tracking"
    /\ pg.current_step > pg.total_steps
    /\ pg.passed > 100
    /\ pg.row.progress = 100

\* what the claim allows a stage task to fail for: a prerequisite that is
\* not persisted, a provider call that failed, a provider answer that is
\* not well formed, rows a previous run of the stage left
FailedForItsInput ==
    \/ wk.exc \in {"ValueError", "Exception", "IntegrityError"}
    \/ wk.answer = "bad_json"
    \/ wk.bad > 0

\* C35: every stage task can complete: a task body of any stage that
\* found its prerequisites persisted and got well-formed output from the
\* provider does not raise.
C35_EveryStageCanComplete ==
    wk.pc = "raised" => FailedForItsInput

\* the position of a step in the pipeline
StepOrder ==
    <<"intent", "discovery", "analysis", "landscape", "ideas", "method",
      "draft">>

StepIndex(step) == CHOOSE i \in 1..Len(StepOrder) : StepOrder[i] = step

\* C36: no step of any task moves the project's current_step to an
\* earlier stage of the pipeline.
C36_CurrentStepMovesForward ==
    [][StepIndex(proj'.current_step) >= StepIndex(proj.current_step)]_vars

\* whether two records are duplicates: the same arXiv id, or the same
\* normalized title
Duplicates(p, q) ==
    \/ p.arxiv_id # 0 /\ p.arxiv_id = q.arxiv_id
    \/ normalize_title(p.title) = normalize_title(q.title)

\* C37: every record of the input is in the returned list or has a
\* duplicate there.
C37_DropsOnlyDuplicates ==
    ms.pc = "done"
        => \A k \in 1..Len(ms.all_papers) :
              \E j \in 1..Len(ms.unique_papers) :
                 \/ ms.unique_papers[j] = ms.all_papers[k]
                 \/ Duplicates(ms.all_papers[k], ms.unique_papers[j])

\* C38: a stage method that raises leaves the workflow state, current_step
\* included, as it was before the call.
C38_RaisingStageLeavesState ==
    (wf.method \in StageMethods /\ wf.exc # "") => wf.assigned = {}

\* the sum of a field over the entries of the given keys
RECURSIVE TotalOf(_, _, _)
TotalOf(calls, keys, field) ==
    IF keys = {} THEN 0
    ELSE LET k == CHOOSE k \in keys : TRUE
         IN  calls[k][field] + TotalOf(calls, keys \ {k}, field)

\* C39: get_summary does not raise, and the totals it returns are the
\* sums over the by_provider breakdown it returns.
C39_SummaryIsConsistent ==
    /\ sm.pc # "raised"
    /\ sm.pc = "returned"
          => \A i \in 1..Len(SummedFields) :
                sm.totals[SummedFields[i]]
                  = TotalOf(sm.by_provider, sm.provider_keys, SummedFields[i])

====
